---- MODULE Spec2Model ----
(***************************************************************************)
(* Model of normal_quantiles.py, a Streamlit script.  Every interaction    *)
(* with a widget re-runs the whole script in the same Python process:      *)
(* the slider value q goes through norm.ppf, the number-input value        *)
(* x_input through norm.cdf, and each of the two panels draws one          *)
(* matplotlib figure with plot_shaded_normal.                              *)
(*                                                                         *)
(* Floats are fixed-point integers with 8 decimals (1.0 is 100000000).     *)
(* A float that may be non-finite, or a call that may raise, is a record   *)
(* [kind, val] with kind in "fin", "neg_inf", "pos_inf", "nan",            *)
(* "DomainError".  norm.ppf, norm.cdf and norm.pdf are library functions;  *)
(* they are tabulated: PpfTable, CdfVals and PdfTable hold their values    *)
(* rounded to 8 decimals at every argument the model can deliver.          *)
(***************************************************************************)
EXTENDS Integers, Sequences, FiniteSets, TLC

VARIABLES
  q,          \* the slider's value (line 72)
  x_input,    \* the number input's value (line 110)
  fig_left,   \* the number of the figure the last run drew on the left (line 92)
  fig_right,  \* the number of the figure the last run drew on the right (line 131)
  display,    \* what the last run put on the page: text and figure of each column
  figs,       \* pyplot's registry: the numbers of the figures not closed
  runs,       \* how many times the script has run in this session
  call        \* the call in progress when the functions are applied on their own

vars == <<q, x_input, fig_left, fig_right, display, figs, runs, call>>

\* ---------------------------------------------------------------- floats
One == 10000 * 10000

Fin(v) == [kind |-> "fin", val |-> v]

NegInf == [kind |-> "neg_inf", val |-> 0]

PosInf == [kind |-> "pos_inf", val |-> 0]

NaN == [kind |-> "nan", val |-> 0]

\* x <= c for a finite array element x and a scalar c (numpy comparison:
\* anything compared with nan is False)
LessEq(x, c) ==
  CASE c.kind = "fin" -> x <= c.val
    [] c.kind = "pos_inf" -> TRUE
    [] OTHER -> FALSE

\* n / d rounded to the nearest integer, ties to even (d > 0)
RoundDiv(n, d) ==
  LET fl == n \div d
      r == n % d
  IN IF 2 * r > d \/ (2 * r = d /\ fl % 2 = 1) THEN fl + 1 ELSE fl

\* f"{v:.4f}": the value in units of 0.0001
Format4f(v) == IF v.kind = "fin" THEN Fin(RoundDiv(v.val, 10000)) ELSE v

\* f"{v*100:.1f}": the percentage in units of 0.1
FormatPct1f(v) == IF v.kind = "fin" THEN Fin(RoundDiv(v.val, 100000)) ELSE v

\* ------------------------------------------------------- library tables
\* PpfTable[k] is norm.ppf(k / 1000), k = 1..999
PpfTable ==
  <<
    -309023231, -287816174, -274778139, -265206981, -257582930, -251214433, -245726339, -240891555,
    -236561813, -232634787, -229036788, -225712924, -222621177, -219728638, -217009038, -214441062,
    -212007169, -209692743, -207485473, -205374891, -203352015, -201409081, -199539331, -197736843,
    -195996398, -194313375, -192683657, -191103565, -189569792, -188079361, -186629574, -185217986,
    -183842367, -182500682, -181191067, -179911811, -178661337, -177438191, -176241030, -175068607,
    -173919767, -172793432, -171688602, -170604340, -169539771, -168494077, -167466489, -166456286,
    -165462790, -164485363, -163523402, -162576339, -161643637, -160724789, -159819314, -158926756,
    -158046682, -157178682, -156322365, -155477359, -154643312, -153819886, -153006759, -152203624,
    -151410189, -150626172, -149851307, -149085336, -148328013, -147579103, -146838380, -146105627,
    -145380636, -144663207, -143953147, -143250272, -142554404, -141865371, -141183008, -140507156,
    -139837662, -139174378, -138517161, -137865873, -137220381, -136580556, -135946275, -135317415,
    -134693863, -134075503, -133462229, -132853933, -132250514, -131651872, -131057911, -130468539,
    -129883663, -129303198, -128727056, -128155157, -127587418, -127023762, -126464114, -125908398,
    -125356544, -124808481, -124264142, -123723460, -123186371, -122652812, -122122722, -121596042,
    -121072713, -120552680, -120035886, -119522278, -119011804, -118504413, -118000054, -117498679,
    -117000241, -116504692, -116011988, -115522085, -115034938, -114550506, -114068748, -113589622,
    -113113090, -112639113, -112167653, -111698673, -111232137, -110768009, -110306256, -109846842,
    -109389735, -108934903, -108482313, -108031934, -107583736, -107137689, -106693763, -106251930,
    -105812162, -105374430, -104938708, -104504970, -104073189, -103643339, -103215396, -102789335,
    -102365131, -101942762, -101522203, -101103433, -100686428, -100271167, -99857627, -99445788,
    -99035629, -98627130, -98220270, -97815029, -97411388, -97009328, -96608830, -96209875,
    -95812447, -95416525, -95022094, -94629136, -94237633, -93847570, -93458929, -93071695,
    -92685851, -92301383, -91918274, -91536509, -91156074, -90776953, -90399133, -90022599,
    -89647336, -89273332, -88900573, -88529045, -88158735, -87789630, -87421716, -87054983,
    -86689417, -86325005, -85961736, -85599599, -85238580, -84878669, -84519854, -84162123,
    -83805467, -83449873, -83095332, -82741832, -82389363, -82037915, -81687477, -81338039,
    -80989591, -80642125, -80295629, -79950094, -79605512, -79261872, -78919165, -78577383,
    -78236516, -77896556, -77557494, -77219321, -76882029, -76545610, -76210054, -75875354,
    -75541503, -75208491, -74876311, -74544955, -74214415, -73884685, -73555756, -73227620,
    -72900272, -72573702, -72247905, -71922873, -71598599, -71275076, -70952297, -70630256,
    -70308946, -69988360, -69668492, -69349335, -69030882, -68713129, -68396067, -68079692,
    -67763996, -67448975, -67134621, -66820930, -66507895, -66195510, -65883769, -65572668,
    -65262200, -64952360, -64643142, -64334541, -64026551, -63719167, -63412385, -63106198,
    -62800601, -62495590, -62191160, -61887304, -61584019, -61281299, -60979140, -60677536,
    -60376484, -60075977, -59776013, -59476585, -59177689, -58879321, -58581477, -58284151,
    -57987339, -57691038, -57395242, -57099947, -56805150, -56510845, -56217029, -55923698,
    -55630847, -55338472, -55046570, -54755135, -54464165, -54173656, -53883603, -53594003,
    -53304851, -53016145, -52727879, -52440051, -52152657, -51865693, -51579156, -51293041,
    -51007346, -50722066, -50437199, -50152740, -49868686, -49585035, -49301781, -49018923,
    -48736457, -48454378, -48172685, -47891373, -47610440, -47329883, -47049697, -46769880,
    -46490429, -46211340, -45932611, -45654238, -45376219, -45098550, -44821228, -44544251,
    -44267614, -43991317, -43715354, -43439724, -43164424, -42889450, -42614801, -42340472,
    -42066462, -41792767, -41519385, -41246313, -40973548, -40701088, -40428929, -40157070,
    -39885507, -39614237, -39343259, -39072570, -38802167, -38532047, -38262208, -37992647,
    -37723362, -37454350, -37185609, -36917136, -36648929, -36380986, -36113303, -35845879,
    -35578711, -35311797, -35045134, -34778720, -34512553, -34246630, -33980949, -33715508,
    -33450304, -33185335, -32920598, -32656093, -32391815, -32127764, -31863936, -31600330,
    -31336944, -31073775, -30810820, -30548079, -30285548, -30023226, -29761110, -29499199,
    -29237490, -28975981, -28714669, -28453554, -28192633, -27931903, -27671364, -27411012,
    -27150845, -26890862, -26631061, -26371440, -26111996, -25852728, -25593633, -25334710,
    -25075957, -24817372, -24558952, -24300697, -24042603, -23784670, -23526894, -23269275,
    -23011810, -22754498, -22497336, -22240323, -21983456, -21726735, -21470157, -21213720,
    -20957422, -20701262, -20445238, -20189348, -19933590, -19677962, -19422463, -19167090,
    -18911843, -18656718, -18401715, -18146832, -17892066, -17637416, -17382881, -17128459,
    -16874147, -16619944, -16365849, -16111859, -15857973, -15604189, -15350506, -15096922,
    -14843434, -14590042, -14336744, -14083537, -13830421, -13577393, -13324452, -13071597,
    -12818825, -12566135, -12313525, -12060993, -11808539, -11556160, -11303854, -11051620,
    -10799457, -10547362, -10295334, -10043372, -9791473, -9539637, -9287861, -9036144,
    -8784484, -8532879, -8281329, -8029831, -7778384, -7526986, -7275636, -7024331,
    -6773071, -6521854, -6270678, -6019541, -5768443, -5517380, -5266353, -5015358,
    -4764396, -4513463, -4262559, -4011681, -3760829, -3510000, -3259194, -3008408,
    -2757641, -2506891, -2256157, -2005437, -1754730, -1504034, -1253347, -1002668,
    -751996, -501328, -250663, 0, 250663, 501328, 751996, 1002668,
    1253347, 1504034, 1754730, 2005437, 2256157, 2506891, 2757641, 3008408,
    3259194, 3510000, 3760829, 4011681, 4262559, 4513463, 4764396, 5015358,
    5266353, 5517380, 5768443, 6019541, 6270678, 6521854, 6773071, 7024331,
    7275636, 7526986, 7778384, 8029831, 8281329, 8532879, 8784484, 9036144,
    9287861, 9539637, 9791473, 10043372, 10295334, 10547362, 10799457, 11051620,
    11303854, 11556160, 11808539, 12060993, 12313525, 12566135, 12818825, 13071597,
    13324452, 13577393, 13830421, 14083537, 14336744, 14590042, 14843434, 15096922,
    15350506, 15604189, 15857973, 16111859, 16365849, 16619944, 16874147, 17128459,
    17382881, 17637416, 17892066, 18146832, 18401715, 18656718, 18911843, 19167090,
    19422463, 19677962, 19933590, 20189348, 20445238, 20701262, 20957422, 21213720,
    21470157, 21726735, 21983456, 22240323, 22497336, 22754498, 23011810, 23269275,
    23526894, 23784670, 24042603, 24300697, 24558952, 24817372, 25075957, 25334710,
    25593633, 25852728, 26111996, 26371440, 26631061, 26890862, 27150845, 27411012,
    27671364, 27931903, 28192633, 28453554, 28714669, 28975981, 29237490, 29499199,
    29761110, 30023226, 30285548, 30548079, 30810820, 31073775, 31336944, 31600330,
    31863936, 32127764, 32391815, 32656093, 32920598, 33185335, 33450304, 33715508,
    33980949, 34246630, 34512553, 34778720, 35045134, 35311797, 35578711, 35845879,
    36113303, 36380986, 36648929, 36917136, 37185609, 37454350, 37723362, 37992647,
    38262208, 38532047, 38802167, 39072570, 39343259, 39614237, 39885507, 40157070,
    40428929, 40701088, 40973548, 41246313, 41519385, 41792767, 42066462, 42340472,
    42614801, 42889450, 43164424, 43439724, 43715354, 43991317, 44267614, 44544251,
    44821228, 45098550, 45376219, 45654238, 45932611, 46211340, 46490429, 46769880,
    47049697, 47329883, 47610440, 47891373, 48172685, 48454378, 48736457, 49018923,
    49301781, 49585035, 49868686, 50152740, 50437199, 50722066, 51007346, 51293041,
    51579156, 51865693, 52152657, 52440051, 52727879, 53016145, 53304851, 53594003,
    53883603, 54173656, 54464165, 54755135, 55046570, 55338472, 55630847, 55923698,
    56217029, 56510845, 56805150, 57099947, 57395242, 57691038, 57987339, 58284151,
    58581477, 58879321, 59177689, 59476585, 59776013, 60075977, 60376484, 60677536,
    60979140, 61281299, 61584019, 61887304, 62191160, 62495590, 62800601, 63106198,
    63412385, 63719167, 64026551, 64334541, 64643142, 64952360, 65262200, 65572668,
    65883769, 66195510, 66507895, 66820930, 67134621, 67448975, 67763996, 68079692,
    68396067, 68713129, 69030882, 69349335, 69668492, 69988360, 70308946, 70630256,
    70952297, 71275076, 71598599, 71922873, 72247905, 72573702, 72900272, 73227620,
    73555756, 73884685, 74214415, 74544955, 74876311, 75208491, 75541503, 75875354,
    76210054, 76545610, 76882029, 77219321, 77557494, 77896556, 78236516, 78577383,
    78919165, 79261872, 79605512, 79950094, 80295629, 80642125, 80989591, 81338039,
    81687477, 82037915, 82389363, 82741832, 83095332, 83449873, 83805467, 84162123,
    84519854, 84878669, 85238580, 85599599, 85961736, 86325005, 86689417, 87054983,
    87421716, 87789630, 88158735, 88529045, 88900573, 89273332, 89647336, 90022599,
    90399133, 90776953, 91156074, 91536509, 91918274, 92301383, 92685851, 93071695,
    93458929, 93847570, 94237633, 94629136, 95022094, 95416525, 95812447, 96209875,
    96608830, 97009328, 97411388, 97815029, 98220270, 98627130, 99035629, 99445788,
    99857627, 100271167, 100686428, 101103433, 101522203, 101942762, 102365131, 102789335,
    103215396, 103643339, 104073189, 104504970, 104938708, 105374430, 105812162, 106251930,
    106693763, 107137689, 107583736, 108031934, 108482313, 108934903, 109389735, 109846842,
    110306256, 110768009, 111232137, 111698673, 112167653, 112639113, 113113090, 113589622,
    114068748, 114550506, 115034938, 115522085, 116011988, 116504692, 117000241, 117498679,
    118000054, 118504413, 119011804, 119522278, 120035886, 120552680, 121072713, 121596042,
    122122722, 122652812, 123186371, 123723460, 124264142, 124808481, 125356544, 125908398,
    126464114, 127023762, 127587418, 128155157, 128727056, 129303198, 129883663, 130468539,
    131057911, 131651872, 132250514, 132853933, 133462229, 134075503, 134693863, 135317415,
    135946275, 136580556, 137220381, 137865873, 138517161, 139174378, 139837662, 140507156,
    141183008, 141865371, 142554404, 143250272, 143953147, 144663207, 145380636, 146105627,
    146838380, 147579103, 148328013, 149085336, 149851307, 150626172, 151410189, 152203624,
    153006759, 153819886, 154643312, 155477359, 156322365, 157178682, 158046682, 158926756,
    159819314, 160724789, 161643637, 162576339, 163523402, 164485363, 165462790, 166456286,
    167466489, 168494077, 169539771, 170604340, 171688602, 172793432, 173919767, 175068607,
    176241030, 177438191, 178661337, 179911811, 181191067, 182500682, 183842367, 185217986,
    186629574, 188079361, 189569792, 191103565, 192683657, 194313375, 195996398, 197736843,
    199539331, 201409081, 203352015, 205374891, 207485473, 209692743, 212007169, 214441062,
    217009038, 219728638, 222621177, 225712924, 229036788, 232634787, 236561813, 240891555,
    245726339, 251214433, 257582930, 265206981, 274778139, 287816174, 309023231
  >>

\* PdfKeys[i] is the i-th element of np.linspace(-4, 4, 1000)
PdfKeys ==
  <<
    -400000000, -399199199, -398398398, -397597598, -396796797, -395995996, -395195195, -394394394,
    -393593594, -392792793, -391991992, -391191191, -390390390, -389589590, -388788789, -387987988,
    -387187187, -386386386, -385585586, -384784785, -383983984, -383183183, -382382382, -381581582,
    -380780781, -379979980, -379179179, -378378378, -377577578, -376776777, -375975976, -375175175,
    -374374374, -373573574, -372772773, -371971972, -371171171, -370370370, -369569570, -368768769,
    -367967968, -367167167, -366366366, -365565566, -364764765, -363963964, -363163163, -362362362,
    -361561562, -360760761, -359959960, -359159159, -358358358, -357557558, -356756757, -355955956,
    -355155155, -354354354, -353553554, -352752753, -351951952, -351151151, -350350350, -349549550,
    -348748749, -347947948, -347147147, -346346346, -345545546, -344744745, -343943944, -343143143,
    -342342342, -341541542, -340740741, -339939940, -339139139, -338338338, -337537538, -336736737,
    -335935936, -335135135, -334334334, -333533534, -332732733, -331931932, -331131131, -330330330,
    -329529530, -328728729, -327927928, -327127127, -326326326, -325525526, -324724725, -323923924,
    -323123123, -322322322, -321521522, -320720721, -319919920, -319119119, -318318318, -317517518,
    -316716717, -315915916, -315115115, -314314314, -313513514, -312712713, -311911912, -311111111,
    -310310310, -309509510, -308708709, -307907908, -307107107, -306306306, -305505506, -304704705,
    -303903904, -303103103, -302302302, -301501502, -300700701, -299899900, -299099099, -298298298,
    -297497497, -296696697, -295895896, -295095095, -294294294, -293493493, -292692693, -291891892,
    -291091091, -290290290, -289489489, -288688689, -287887888, -287087087, -286286286, -285485485,
    -284684685, -283883884, -283083083, -282282282, -281481481, -280680681, -279879880, -279079079,
    -278278278, -277477477, -276676677, -275875876, -275075075, -274274274, -273473473, -272672673,
    -271871872, -271071071, -270270270, -269469469, -268668669, -267867868, -267067067, -266266266,
    -265465465, -264664665, -263863864, -263063063, -262262262, -261461461, -260660661, -259859860,
    -259059059, -258258258, -257457457, -256656657, -255855856, -255055055, -254254254, -253453453,
    -252652653, -251851852, -251051051, -250250250, -249449449, -248648649, -247847848, -247047047,
    -246246246, -245445445, -244644645, -243843844, -243043043, -242242242, -241441441, -240640641,
    -239839840, -239039039, -238238238, -237437437, -236636637, -235835836, -235035035, -234234234,
    -233433433, -232632633, -231831832, -231031031, -230230230, -229429429, -228628629, -227827828,
    -227027027, -226226226, -225425425, -224624625, -223823824, -223023023, -222222222, -221421421,
    -220620621, -219819820, -219019019, -218218218, -217417417, -216616617, -215815816, -215015015,
    -214214214, -213413413, -212612613, -211811812, -211011011, -210210210, -209409409, -208608609,
    -207807808, -207007007, -206206206, -205405405, -204604605, -203803804, -203003003, -202202202,
    -201401401, -200600601, -199799800, -198998999, -198198198, -197397397, -196596597, -195795796,
    -194994995, -194194194, -193393393, -192592593, -191791792, -190990991, -190190190, -189389389,
    -188588589, -187787788, -186986987, -186186186, -185385385, -184584585, -183783784, -182982983,
    -182182182, -181381381, -180580581, -179779780, -178978979, -178178178, -177377377, -176576577,
    -175775776, -174974975, -174174174, -173373373, -172572573, -171771772, -170970971, -170170170,
    -169369369, -168568569, -167767768, -166966967, -166166166, -165365365, -164564565, -163763764,
    -162962963, -162162162, -161361361, -160560561, -159759760, -158958959, -158158158, -157357357,
    -156556557, -155755756, -154954955, -154154154, -153353353, -152552553, -151751752, -150950951,
    -150150150, -149349349, -148548549, -147747748, -146946947, -146146146, -145345345, -144544545,
    -143743744, -142942943, -142142142, -141341341, -140540541, -139739740, -138938939, -138138138,
    -137337337, -136536537, -135735736, -134934935, -134134134, -133333333, -132532533, -131731732,
    -130930931, -130130130, -129329329, -128528529, -127727728, -126926927, -126126126, -125325325,
    -124524525, -123723724, -122922923, -122122122, -121321321, -120520521, -119719720, -118918919,
    -118118118, -117317317, -116516517, -115715716, -114914915, -114114114, -113313313, -112512513,
    -111711712, -110910911, -110110110, -109309309, -108508509, -107707708, -106906907, -106106106,
    -105305305, -104504505, -103703704, -102902903, -102102102, -101301301, -100500501, -99699700,
    -98898899, -98098098, -97297297, -96496496, -95695696, -94894895, -94094094, -93293293,
    -92492492, -91691692, -90890891, -90090090, -89289289, -88488488, -87687688, -86886887,
    -86086086, -85285285, -84484484, -83683684, -82882883, -82082082, -81281281, -80480480,
    -79679680, -78878879, -78078078, -77277277, -76476476, -75675676, -74874875, -74074074,
    -73273273, -72472472, -71671672, -70870871, -70070070, -69269269, -68468468, -67667668,
    -66866867, -66066066, -65265265, -64464464, -63663664, -62862863, -62062062, -61261261,
    -60460460, -59659660, -58858859, -58058058, -57257257, -56456456, -55655656, -54854855,
    -54054054, -53253253, -52452452, -51651652, -50850851, -50050050, -49249249, -48448448,
    -47647648, -46846847, -46046046, -45245245, -44444444, -43643644, -42842843, -42042042,
    -41241241, -40440440, -39639640, -38838839, -38038038, -37237237, -36436436, -35635636,
    -34834835, -34034034, -33233233, -32432432, -31631632, -30830831, -30030030, -29229229,
    -28428428, -27627628, -26826827, -26026026, -25225225, -24424424, -23623624, -22822823,
    -22022022, -21221221, -20420420, -19619620, -18818819, -18018018, -17217217, -16416416,
    -15615616, -14814815, -14014014, -13213213, -12412412, -11611612, -10810811, -10010010,
    -9209209, -8408408, -7607608, -6806807, -6006006, -5205205, -4404404, -3603604,
    -2802803, -2002002, -1201201, -400400, 400400, 1201201, 2002002, 2802803,
    3603604, 4404404, 5205205, 6006006, 6806807, 7607608, 8408408, 9209209,
    10010010, 10810811, 11611612, 12412412, 13213213, 14014014, 14814815, 15615616,
    16416416, 17217217, 18018018, 18818819, 19619620, 20420420, 21221221, 22022022,
    22822823, 23623624, 24424424, 25225225, 26026026, 26826827, 27627628, 28428428,
    29229229, 30030030, 30830831, 31631632, 32432432, 33233233, 34034034, 34834835,
    35635636, 36436436, 37237237, 38038038, 38838839, 39639640, 40440440, 41241241,
    42042042, 42842843, 43643644, 44444444, 45245245, 46046046, 46846847, 47647648,
    48448448, 49249249, 50050050, 50850851, 51651652, 52452452, 53253253, 54054054,
    54854855, 55655656, 56456456, 57257257, 58058058, 58858859, 59659660, 60460460,
    61261261, 62062062, 62862863, 63663664, 64464464, 65265265, 66066066, 66866867,
    67667668, 68468468, 69269269, 70070070, 70870871, 71671672, 72472472, 73273273,
    74074074, 74874875, 75675676, 76476476, 77277277, 78078078, 78878879, 79679680,
    80480480, 81281281, 82082082, 82882883, 83683684, 84484484, 85285285, 86086086,
    86886887, 87687688, 88488488, 89289289, 90090090, 90890891, 91691692, 92492492,
    93293293, 94094094, 94894895, 95695696, 96496496, 97297297, 98098098, 98898899,
    99699700, 100500501, 101301301, 102102102, 102902903, 103703704, 104504505, 105305305,
    106106106, 106906907, 107707708, 108508509, 109309309, 110110110, 110910911, 111711712,
    112512513, 113313313, 114114114, 114914915, 115715716, 116516517, 117317317, 118118118,
    118918919, 119719720, 120520521, 121321321, 122122122, 122922923, 123723724, 124524525,
    125325325, 126126126, 126926927, 127727728, 128528529, 129329329, 130130130, 130930931,
    131731732, 132532533, 133333333, 134134134, 134934935, 135735736, 136536537, 137337337,
    138138138, 138938939, 139739740, 140540541, 141341341, 142142142, 142942943, 143743744,
    144544545, 145345345, 146146146, 146946947, 147747748, 148548549, 149349349, 150150150,
    150950951, 151751752, 152552553, 153353353, 154154154, 154954955, 155755756, 156556557,
    157357357, 158158158, 158958959, 159759760, 160560561, 161361361, 162162162, 162962963,
    163763764, 164564565, 165365365, 166166166, 166966967, 167767768, 168568569, 169369369,
    170170170, 170970971, 171771772, 172572573, 173373373, 174174174, 174974975, 175775776,
    176576577, 177377377, 178178178, 178978979, 179779780, 180580581, 181381381, 182182182,
    182982983, 183783784, 184584585, 185385385, 186186186, 186986987, 187787788, 188588589,
    189389389, 190190190, 190990991, 191791792, 192592593, 193393393, 194194194, 194994995,
    195795796, 196596597, 197397397, 198198198, 198998999, 199799800, 200600601, 201401401,
    202202202, 203003003, 203803804, 204604605, 205405405, 206206206, 207007007, 207807808,
    208608609, 209409409, 210210210, 211011011, 211811812, 212612613, 213413413, 214214214,
    215015015, 215815816, 216616617, 217417417, 218218218, 219019019, 219819820, 220620621,
    221421421, 222222222, 223023023, 223823824, 224624625, 225425425, 226226226, 227027027,
    227827828, 228628629, 229429429, 230230230, 231031031, 231831832, 232632633, 233433433,
    234234234, 235035035, 235835836, 236636637, 237437437, 238238238, 239039039, 239839840,
    240640641, 241441441, 242242242, 243043043, 243843844, 244644645, 245445445, 246246246,
    247047047, 247847848, 248648649, 249449449, 250250250, 251051051, 251851852, 252652653,
    253453453, 254254254, 255055055, 255855856, 256656657, 257457457, 258258258, 259059059,
    259859860, 260660661, 261461461, 262262262, 263063063, 263863864, 264664665, 265465465,
    266266266, 267067067, 267867868, 268668669, 269469469, 270270270, 271071071, 271871872,
    272672673, 273473473, 274274274, 275075075, 275875876, 276676677, 277477477, 278278278,
    279079079, 279879880, 280680681, 281481481, 282282282, 283083083, 283883884, 284684685,
    285485485, 286286286, 287087087, 287887888, 288688689, 289489489, 290290290, 291091091,
    291891892, 292692693, 293493493, 294294294, 295095095, 295895896, 296696697, 297497497,
    298298298, 299099099, 299899900, 300700701, 301501502, 302302302, 303103103, 303903904,
    304704705, 305505506, 306306306, 307107107, 307907908, 308708709, 309509510, 310310310,
    311111111, 311911912, 312712713, 313513514, 314314314, 315115115, 315915916, 316716717,
    317517518, 318318318, 319119119, 319919920, 320720721, 321521522, 322322322, 323123123,
    323923924, 324724725, 325525526, 326326326, 327127127, 327927928, 328728729, 329529530,
    330330330, 331131131, 331931932, 332732733, 333533534, 334334334, 335135135, 335935936,
    336736737, 337537538, 338338338, 339139139, 339939940, 340740741, 341541542, 342342342,
    343143143, 343943944, 344744745, 345545546, 346346346, 347147147, 347947948, 348748749,
    349549550, 350350350, 351151151, 351951952, 352752753, 353553554, 354354354, 355155155,
    355955956, 356756757, 357557558, 358358358, 359159159, 359959960, 360760761, 361561562,
    362362362, 363163163, 363963964, 364764765, 365565566, 366366366, 367167167, 367967968,
    368768769, 369569570, 370370370, 371171171, 371971972, 372772773, 373573574, 374374374,
    375175175, 375975976, 376776777, 377577578, 378378378, 379179179, 379979980, 380780781,
    381581582, 382382382, 383183183, 383983984, 384784785, 385585586, 386386386, 387187187,
    387987988, 388788789, 389589590, 390390390, 391191191, 391991992, 392792793, 393593594,
    394394394, 395195195, 395995996, 396796797, 397597598, 398398398, 399199199, 400000000
  >>

\* PdfTable[i] is norm.pdf(PdfKeys[i])
PdfTable ==
  <<
    13383, 13818, 14267, 14729, 15205, 15695, 16200, 16721,
    17257, 17809, 18377, 18962, 19565, 20186, 20825, 21483,
    22160, 22857, 23575, 24313, 25073, 25855, 26660, 27488,
    28340, 29217, 30119, 31046, 32000, 32982, 33991, 35029,
    36096, 37193, 38321, 39481, 40674, 41900, 43160, 44455,
    45785, 47153, 48559, 50003, 51487, 53011, 54577, 56186,
    57838, 59535, 61278, 63069, 64907, 66794, 68732, 70722,
    72764, 74861, 77014, 79223, 81490, 83817, 86204, 88654,
    91168, 93747, 96393, 99107, 101891, 104746, 107675, 110678,
    113758, 116916, 120154, 123474, 126877, 130366, 133942, 137608,
    141364, 145214, 149159, 153202, 157344, 161587, 165935, 170388,
    174950, 179623, 184408, 189309, 194327, 199466, 204727, 210114,
    215629, 221274, 227053, 232967, 239020, 245215, 251554, 258041,
    264678, 271468, 278414, 285520, 292789, 300223, 307826, 315602,
    323553, 331683, 339996, 348495, 357183, 366064, 375143, 384421,
    393904, 403595, 413498, 423617, 433955, 444518, 455308, 466330,
    477588, 489087, 500831, 512823, 525069, 537573, 550340, 563374,
    576679, 590261, 604124, 618272, 632712, 647447, 662483, 677825,
    693477, 709446, 725735, 742351, 759299, 776584, 794211, 812187,
    830516, 849204, 868257, 887681, 907481, 927663, 948233, 969197,
    990561, 1012331, 1034513, 1057113, 1080138, 1103594, 1127486, 1151822,
    1176608, 1201850, 1227555, 1253730, 1280380, 1307513, 1335135, 1363254,
    1391875, 1421006, 1450654, 1480825, 1511527, 1542767, 1574551, 1606887,
    1639782, 1673243, 1707278, 1741893, 1777095, 1812893, 1849294, 1886304,
    1923932, 1962184, 2001069, 2040593, 2080765, 2121591, 2163080, 2205239,
    2248075, 2291596, 2335810, 2380724, 2426347, 2472685, 2519746, 2567539,
    2616070, 2665348, 2715380, 2766173, 2817736, 2870076, 2923201, 2977118,
    3031835, 3087360, 3143700, 3200863, 3258857, 3317688, 3377365, 3437895,
    3499285, 3561543, 3624677, 3688693, 3753599, 3819401, 3886109, 3953728,
    4022265, 4091728, 4162124, 4233459, 4305741, 4378977, 4453172, 4528334,
    4604469, 4681584, 4759686, 4838780, 4918873, 4999971, 5082080, 5165207,
    5249356, 5334534, 5420747, 5508000, 5596298, 5685648, 5776053, 5867519,
    5960052, 6053656, 6148336, 6244096, 6340940, 6438874, 6537901, 6638026,
    6739252, 6841582, 6945021, 7049572, 7155237, 7262021, 7369926, 7478955,
    7589110, 7700393, 7812807, 7926354, 8041036, 8156853, 8273809, 8391903,
    8511137, 8631511, 8753026, 8875683, 8999482, 9124422, 9250504, 9377726,
    9506089, 9635590, 9766229, 9898005, 10030916, 10164959, 10300134, 10436436,
    10573864, 10712415, 10852085, 10992871, 11134770, 11277777, 11421888, 11567099,
    11713405, 11860800, 12009281, 12158840, 12309473, 12461172, 12613932, 12767746,
    12922607, 13078508, 13235440, 13393397, 13552369, 13712350, 13873328, 14035297,
    14198246, 14362166, 14527047, 14692878, 14859650, 15027351, 15195969, 15365495,
    15535915, 15707218, 15879392, 16052423, 16226300, 16401007, 16576533, 16752863,
    16929983, 17107879, 17286535, 17465937, 17646069, 17826915, 18008460, 18190688,
    18373581, 18557122, 18741295, 18926083, 19111467, 19297429, 19483951, 19671014,
    19858600, 20046689, 20235262, 20424299, 20613780, 20803684, 20993992, 21184682,
    21375733, 21567125, 21758834, 21950840, 22143120, 22335652, 22528413, 22721381,
    22914532, 23107843, 23301290, 23494851, 23688500, 23882213, 24075967, 24269736,
    24463496, 24657221, 24850887, 25044468, 25237938, 25431272, 25624444, 25817427,
    26010195, 26202723, 26394983, 26586948, 26778593, 26969889, 27160810, 27351328,
    27541417, 27731048, 27920195, 28108828, 28296922, 28484448, 28671377, 28857683,
    29043337, 29228310, 29412576, 29596105, 29778870, 29960842, 30141993, 30322294,
    30501718, 30680237, 30857821, 31034442, 31210074, 31384686, 31558252, 31730742,
    31902129, 32072386, 32241483, 32409393, 32576089, 32741542, 32905726, 33068612,
    33230173, 33390382, 33549212, 33706637, 33862628, 34017159, 34170205, 34321737,
    34471732, 34620161, 34767000, 34912223, 35055804, 35197719, 35337942, 35476448,
    35613214, 35748214, 35881424, 36012822, 36142383, 36270084, 36395902, 36519815,
    36641800, 36761834, 36879897, 36995966, 37110021, 37222040, 37332003, 37439890,
    37545682, 37649357, 37750898, 37850285, 37947501, 38042526, 38135344, 38225937,
    38314288, 38400380, 38484198, 38565726, 38644948, 38721850, 38796416, 38868634,
    38938488, 39005967, 39071057, 39133747, 39194023, 39251875, 39307291, 39360262,
    39410776, 39458825, 39504399, 39547489, 39588088, 39626187, 39661779, 39694857,
    39725416, 39753448, 39778950, 39801915, 39822339, 39840220, 39855552, 39868333,
    39878561, 39886234, 39891350, 39893908, 39893908, 39891350, 39886234, 39878561,
    39868333, 39855552, 39840220, 39822339, 39801915, 39778950, 39753448, 39725416,
    39694857, 39661779, 39626187, 39588088, 39547489, 39504399, 39458825, 39410776,
    39360262, 39307291, 39251875, 39194023, 39133747, 39071057, 39005967, 38938488,
    38868634, 38796416, 38721850, 38644948, 38565726, 38484198, 38400380, 38314288,
    38225937, 38135344, 38042526, 37947501, 37850285, 37750898, 37649357, 37545682,
    37439890, 37332003, 37222040, 37110021, 36995966, 36879897, 36761834, 36641800,
    36519815, 36395902, 36270084, 36142383, 36012822, 35881424, 35748214, 35613214,
    35476448, 35337942, 35197719, 35055804, 34912223, 34767000, 34620161, 34471732,
    34321737, 34170205, 34017159, 33862628, 33706637, 33549212, 33390382, 33230173,
    33068612, 32905726, 32741542, 32576089, 32409393, 32241483, 32072386, 31902129,
    31730742, 31558252, 31384686, 31210074, 31034442, 30857821, 30680237, 30501718,
    30322294, 30141993, 29960842, 29778870, 29596105, 29412576, 29228310, 29043337,
    28857683, 28671377, 28484448, 28296922, 28108828, 27920195, 27731048, 27541417,
    27351328, 27160810, 26969889, 26778593, 26586948, 26394983, 26202723, 26010195,
    25817427, 25624444, 25431272, 25237938, 25044468, 24850887, 24657221, 24463496,
    24269736, 24075967, 23882213, 23688500, 23494851, 23301290, 23107843, 22914532,
    22721381, 22528413, 22335652, 22143120, 21950840, 21758834, 21567125, 21375733,
    21184682, 20993992, 20803684, 20613780, 20424299, 20235262, 20046689, 19858600,
    19671014, 19483951, 19297429, 19111467, 18926083, 18741295, 18557122, 18373581,
    18190688, 18008460, 17826915, 17646069, 17465937, 17286535, 17107879, 16929983,
    16752863, 16576533, 16401007, 16226300, 16052423, 15879392, 15707218, 15535915,
    15365495, 15195969, 15027351, 14859650, 14692878, 14527047, 14362166, 14198246,
    14035297, 13873328, 13712350, 13552369, 13393397, 13235440, 13078508, 12922607,
    12767746, 12613932, 12461172, 12309473, 12158840, 12009281, 11860800, 11713405,
    11567099, 11421888, 11277777, 11134770, 10992871, 10852085, 10712415, 10573864,
    10436436, 10300134, 10164959, 10030916, 9898005, 9766229, 9635590, 9506089,
    9377726, 9250504, 9124422, 8999482, 8875683, 8753026, 8631511, 8511137,
    8391903, 8273809, 8156853, 8041036, 7926354, 7812807, 7700393, 7589110,
    7478955, 7369926, 7262021, 7155237, 7049572, 6945021, 6841582, 6739252,
    6638026, 6537901, 6438874, 6340940, 6244096, 6148336, 6053656, 5960052,
    5867519, 5776053, 5685648, 5596298, 5508000, 5420747, 5334534, 5249356,
    5165207, 5082080, 4999971, 4918873, 4838780, 4759686, 4681584, 4604469,
    4528334, 4453172, 4378977, 4305741, 4233459, 4162124, 4091728, 4022265,
    3953728, 3886109, 3819401, 3753599, 3688693, 3624677, 3561543, 3499285,
    3437895, 3377365, 3317688, 3258857, 3200863, 3143700, 3087360, 3031835,
    2977118, 2923201, 2870076, 2817736, 2766173, 2715380, 2665348, 2616070,
    2567539, 2519746, 2472685, 2426347, 2380724, 2335810, 2291596, 2248075,
    2205239, 2163080, 2121591, 2080765, 2040593, 2001069, 1962184, 1923932,
    1886304, 1849294, 1812893, 1777095, 1741893, 1707278, 1673243, 1639782,
    1606887, 1574551, 1542767, 1511527, 1480825, 1450654, 1421006, 1391875,
    1363254, 1335135, 1307513, 1280380, 1253730, 1227555, 1201850, 1176608,
    1151822, 1127486, 1103594, 1080138, 1057113, 1034513, 1012331, 990561,
    969197, 948233, 927663, 907481, 887681, 868257, 849204, 830516,
    812187, 794211, 776584, 759299, 742351, 725735, 709446, 693477,
    677825, 662483, 647447, 632712, 618272, 604124, 590261, 576679,
    563374, 550340, 537573, 525069, 512823, 500831, 489087, 477588,
    466330, 455308, 444518, 433955, 423617, 413498, 403595, 393904,
    384421, 375143, 366064, 357183, 348495, 339996, 331683, 323553,
    315602, 307826, 300223, 292789, 285520, 278414, 271468, 264678,
    258041, 251554, 245215, 239020, 232967, 227053, 221274, 215629,
    210114, 204727, 199466, 194327, 189309, 184408, 179623, 174950,
    170388, 165935, 161587, 157344, 153202, 149159, 145214, 141364,
    137608, 133942, 130366, 126877, 123474, 120154, 116916, 113758,
    110678, 107675, 104746, 101891, 99107, 96393, 93747, 91168,
    88654, 86204, 83817, 81490, 79223, 77014, 74861, 72764,
    70722, 68732, 66794, 64907, 63069, 61278, 59535, 57838,
    56186, 54577, 53011, 51487, 50003, 48559, 47153, 45785,
    44455, 43160, 41900, 40674, 39481, 38321, 37193, 36096,
    35029, 33991, 32982, 32000, 31046, 30119, 29217, 28340,
    27488, 26660, 25855, 25073, 24313, 23575, 22857, 22160,
    21483, 20825, 20186, 19565, 18962, 18377, 17809, 17257,
    16721, 16200, 15695, 15205, 14729, 14267, 13818, 13383
  >>

\* CdfKeys: every value of PpfTable and every value of XGrid, ascending
CdfKeys ==
  <<
    -400000000, -399990000, -399200000, -399190000, -399000000, -398000000, -397000000, -396000000,
    -395000000, -394000000, -393000000, -392000000, -391000000, -390000000, -389000000, -388000000,
    -387000000, -386000000, -385000000, -384000000, -383000000, -382000000, -381000000, -380000000,
    -379000000, -378000000, -377000000, -376000000, -375000000, -374000000, -373000000, -372000000,
    -371000000, -370000000, -369000000, -368000000, -367000000, -366000000, -365000000, -364000000,
    -363000000, -362000000, -361000000, -360000000, -359000000, -358000000, -357000000, -356000000,
    -355000000, -354000000, -353000000, -352000000, -351000000, -350000000, -349000000, -348000000,
    -347000000, -346000000, -345000000, -344000000, -343000000, -342000000, -341000000, -340000000,
    -339000000, -338000000, -337000000, -336000000, -335000000, -334000000, -333000000, -332000000,
    -331000000, -330000000, -329000000, -328000000, -327000000, -326000000, -325000000, -324000000,
    -323000000, -322000000, -321000000, -320000000, -319000000, -318000000, -317000000, -316000000,
    -315000000, -314000000, -313000000, -312000000, -311000000, -310000000, -309023231, -309000000,
    -308000000, -307000000, -306000000, -305000000, -304000000, -303000000, -302000000, -301000000,
    -300000000, -299000000, -298000000, -297000000, -296000000, -295000000, -294000000, -293000000,
    -292000000, -291000000, -290000000, -289000000, -288000000, -287816174, -287000000, -286000000,
    -285000000, -284000000, -283000000, -282000000, -281000000, -280000000, -279000000, -278000000,
    -277000000, -276000000, -275000000, -274778139, -274000000, -273000000, -272000000, -271000000,
    -270000000, -269000000, -268000000, -267000000, -266000000, -265206981, -265000000, -264000000,
    -263000000, -262000000, -261000000, -260000000, -259000000, -258000000, -257582930, -257000000,
    -256000000, -255000000, -254000000, -253000000, -252000000, -251214433, -251000000, -250000000,
    -249000000, -248000000, -247000000, -246000000, -245726339, -245000000, -244000000, -243000000,
    -242000000, -241000000, -240891555, -240000000, -239000000, -238000000, -237000000, -236561813,
    -236000000, -235000000, -234000000, -233000000, -232634787, -232000000, -231000000, -230000000,
    -229036788, -229000000, -228000000, -227000000, -226000000, -225712924, -225000000, -224000000,
    -223000000, -222621177, -222000000, -221000000, -220000000, -219728638, -219000000, -218000000,
    -217009038, -217000000, -216000000, -215000000, -214441062, -214000000, -213000000, -212007169,
    -212000000, -211000000, -210000000, -209692743, -209000000, -208000000, -207485473, -207000000,
    -206000000, -205374891, -205000000, -204000000, -203352015, -203000000, -202000000, -201409081,
    -201000000, -200000000, -199539331, -199000000, -198000000, -197736843, -197000000, -196000000,
    -195996398, -195000000, -194313375, -194000000, -193000000, -192683657, -192000000, -191103565,
    -191000000, -190000000, -189569792, -189000000, -188079361, -188000000, -187000000, -186629574,
    -186000000, -185217986, -185000000, -184000000, -183842367, -183000000, -182500682, -182000000,
    -181191067, -181000000, -180000000, -179911811, -179000000, -178661337, -178000000, -177438191,
    -177000000, -176241030, -176000000, -175068607, -175000000, -174000000, -173919767, -173000000,
    -172793432, -172000000, -171688602, -171000000, -170604340, -170000000, -169539771, -169000000,
    -168494077, -168000000, -167466489, -167000000, -166456286, -166000000, -165462790, -165000000,
    -164485363, -164000000, -163523402, -163000000, -162576339, -162000000, -161643637, -161000000,
    -160724789, -160000000, -159819314, -159000000, -158926756, -158046682, -158000000, -157178682,
    -157000000, -156322365, -156000000, -155477359, -155000000, -154643312, -154000000, -153819886,
    -153006759, -153000000, -152203624, -152000000, -151410189, -151000000, -150626172, -150000000,
    -149851307, -149085336, -149000000, -148328013, -148000000, -147579103, -147000000, -146838380,
    -146105627, -146000000, -145380636, -145000000, -144663207, -144000000, -143953147, -143250272,
    -143000000, -142554404, -142000000, -141865371, -141183008, -141000000, -140507156, -140000000,
    -139837662, -139174378, -139000000, -138517161, -138000000, -137865873, -137220381, -137000000,
    -136580556, -136000000, -135946275, -135317415, -135000000, -134693863, -134075503, -134000000,
    -133462229, -133000000, -132853933, -132250514, -132000000, -131651872, -131057911, -131000000,
    -130468539, -130000000, -129883663, -129303198, -129000000, -128727056, -128155157, -128000000,
    -127587418, -127023762, -127000000, -126464114, -126000000, -125908398, -125356544, -125000000,
    -124808481, -124264142, -124000000, -123723460, -123186371, -123000000, -122652812, -122122722,
    -122000000, -121596042, -121072713, -121000000, -120552680, -120035886, -120000000, -119522278,
    -119011804, -119000000, -118504413, -118000054, -118000000, -117498679, -117000241, -117000000,
    -116504692, -116011988, -116000000, -115522085, -115034938, -115000000, -114550506, -114068748,
    -114000000, -113589622, -113113090, -113000000, -112639113, -112167653, -112000000, -111698673,
    -111232137, -111000000, -110768009, -110306256, -110000000, -109846842, -109389735, -109000000,
    -108934903, -108482313, -108031934, -108000000, -107583736, -107137689, -107000000, -106693763,
    -106251930, -106000000, -105812162, -105374430, -105000000, -104938708, -104504970, -104073189,
    -104000000, -103643339, -103215396, -103000000, -102789335, -102365131, -102000000, -101942762,
    -101522203, -101103433, -101000000, -100686428, -100271167, -100000000, -99857627, -99445788,
    -99035629, -99000000, -98627130, -98220270, -98000000, -97815029, -97411388, -97009328,
    -97000000, -96608830, -96209875, -96000000, -95812447, -95416525, -95022094, -95000000,
    -94629136, -94237633, -94000000, -93847570, -93458929, -93071695, -93000000, -92685851,
    -92301383, -92000000, -91918274, -91536509, -91156074, -91000000, -90776953, -90399133,
    -90022599, -90000000, -89647336, -89273332, -89000000, -88900573, -88529045, -88158735,
    -88000000, -87789630, -87421716, -87054983, -87000000, -86689417, -86325005, -86000000,
    -85961736, -85599599, -85238580, -85000000, -84878669, -84519854, -84162123, -84000000,
    -83805467, -83449873, -83095332, -83000000, -82741832, -82389363, -82037915, -82000000,
    -81687477, -81338039, -81000000, -80989591, -80642125, -80295629, -80000000, -79950094,
    -79605512, -79261872, -79000000, -78919165, -78577383, -78236516, -78000000, -77896556,
    -77557494, -77219321, -77000000, -76882029, -76545610, -76210054, -76000000, -75875354,
    -75541503, -75208491, -75000000, -74876311, -74544955, -74214415, -74000000, -73884685,
    -73555756, -73227620, -73000000, -72900272, -72573702, -72247905, -72000000, -71922873,
    -71598599, -71275076, -71000000, -70952297, -70630256, -70308946, -70000000, -69988360,
    -69668492, -69349335, -69030882, -69000000, -68713129, -68396067, -68079692, -68000000,
    -67763996, -67450000, -67448975, -67134621, -67000000, -66820930, -66507895, -66195510,
    -66000000, -65883769, -65572668, -65262200, -65000000, -64952360, -64643142, -64334541,
    -64026551, -64000000, -63719167, -63412385, -63106198, -63000000, -62800601, -62495590,
    -62191160, -62000000, -61887304, -61584019, -61281299, -61000000, -60979140, -60677536,
    -60376484, -60075977, -60000000, -59776013, -59476585, -59177689, -59000000, -58879321,
    -58581477, -58284151, -58000000, -57987339, -57691038, -57395242, -57099947, -57000000,
    -56805150, -56510845, -56217029, -56000000, -55923698, -55630847, -55338472, -55046570,
    -55000000, -54755135, -54464165, -54173656, -54000000, -53883603, -53594003, -53304851,
    -53016145, -53000000, -52727879, -52440051, -52152657, -52000000, -51865693, -51579156,
    -51293041, -51007346, -51000000, -50722066, -50437199, -50152740, -50000000, -49868686,
    -49585035, -49301781, -49018923, -49000000, -48736457, -48454378, -48172685, -48000000,
    -47891373, -47610440, -47329883, -47049697, -47000000, -46769880, -46490429, -46211340,
    -46000000, -45932611, -45654238, -45376219, -45098550, -45000000, -44821228, -44544251,
    -44267614, -44000000, -43991317, -43715354, -43439724, -43164424, -43000000, -42889450,
    -42614801, -42340472, -42066462, -42000000, -41792767, -41519385, -41246313, -41000000,
    -40973548, -40701088, -40428929, -40157070, -40000000, -39885507, -39614237, -39343259,
    -39072570, -39000000, -38802167, -38532047, -38262208, -38000000, -37992647, -37723362,
    -37454350, -37185609, -37000000, -36917136, -36648929, -36380986, -36113303, -36000000,
    -35845879, -35578711, -35311797, -35045134, -35000000, -34778720, -34512553, -34246630,
    -34000000, -33980949, -33715508, -33450304, -33185335, -33000000, -32920598, -32656093,
    -32391815, -32127764, -32000000, -31863936, -31600330, -31336944, -31073775, -31000000,
    -30810820, -30548079, -30285548, -30023226, -30000000, -29761110, -29499199, -29237490,
    -29000000, -28975981, -28714669, -28453554, -28192633, -28000000, -27931903, -27671364,
    -27411012, -27150845, -27000000, -26890862, -26631061, -26371440, -26111996, -26000000,
    -25852728, -25593633, -25334710, -25075957, -25000000, -24817372, -24558952, -24300697,
    -24042603, -24000000, -23784670, -23526894, -23269275, -23011810, -23000000, -22754498,
    -22497336, -22240323, -22000000, -21983456, -21726735, -21470157, -21213720, -21000000,
    -20957422, -20701262, -20445238, -20189348, -20000000, -19933590, -19677962, -19422463,
    -19167090, -19000000, -18911843, -18656718, -18401715, -18146832, -18000000, -17892066,
    -17637416, -17382881, -17128459, -17000000, -16874147, -16619944, -16365849, -16111859,
    -16000000, -15857973, -15604189, -15350506, -15096922, -15000000, -14843434, -14590042,
    -14336744, -14083537, -14000000, -13830421, -13577393, -13324452, -13071597, -13000000,
    -12818825, -12566135, -12313525, -12060993, -12000000, -11808539, -11556160, -11303854,
    -11051620, -11000000, -10799457, -10547362, -10295334, -10043372, -10000000, -9791473,
    -9539637, -9287861, -9036144, -9000000, -8784484, -8532879, -8281329, -8029831,
    -8000000, -7778384, -7526986, -7275636, -7024331, -7000000, -6773071, -6521854,
    -6270678, -6019541, -6000000, -5768443, -5517380, -5266353, -5015358, -5000000,
    -4764396, -4513463, -4262559, -4011681, -4000000, -3760829, -3510000, -3259194,
    -3008408, -3000000, -2757641, -2506891, -2256157, -2005437, -2000000, -1754730,
    -1504034, -1253347, -1002668, -1000000, -751996, -501328, -250663, -10000,
    0, 10000, 250663, 501328, 751996, 1000000, 1002668, 1253347,
    1504034, 1754730, 2000000, 2005437, 2256157, 2506891, 2757641, 3000000,
    3008408, 3259194, 3510000, 3760829, 4000000, 4011681, 4262559, 4513463,
    4764396, 5000000, 5015358, 5266353, 5517380, 5768443, 6000000, 6019541,
    6270678, 6521854, 6773071, 7000000, 7024331, 7275636, 7526986, 7778384,
    8000000, 8029831, 8281329, 8532879, 8784484, 9000000, 9036144, 9287861,
    9539637, 9791473, 10000000, 10043372, 10295334, 10547362, 10799457, 11000000,
    11051620, 11303854, 11556160, 11808539, 12000000, 12060993, 12313525, 12566135,
    12818825, 13000000, 13071597, 13324452, 13577393, 13830421, 14000000, 14083537,
    14336744, 14590042, 14843434, 15000000, 15096922, 15350506, 15604189, 15857973,
    16000000, 16111859, 16365849, 16619944, 16874147, 17000000, 17128459, 17382881,
    17637416, 17892066, 18000000, 18146832, 18401715, 18656718, 18911843, 19000000,
    19167090, 19422463, 19677962, 19933590, 20000000, 20189348, 20445238, 20701262,
    20957422, 21000000, 21213720, 21470157, 21726735, 21983456, 22000000, 22240323,
    22497336, 22754498, 23000000, 23011810, 23269275, 23526894, 23784670, 24000000,
    24042603, 24300697, 24558952, 24817372, 25000000, 25075957, 25334710, 25593633,
    25852728, 26000000, 26111996, 26371440, 26631061, 26890862, 27000000, 27150845,
    27411012, 27671364, 27931903, 28000000, 28192633, 28453554, 28714669, 28975981,
    29000000, 29237490, 29499199, 29761110, 30000000, 30023226, 30285548, 30548079,
    30810820, 31000000, 31073775, 31336944, 31600330, 31863936, 32000000, 32127764,
    32391815, 32656093, 32920598, 33000000, 33185335, 33450304, 33715508, 33980949,
    34000000, 34246630, 34512553, 34778720, 35000000, 35045134, 35311797, 35578711,
    35845879, 36000000, 36113303, 36380986, 36648929, 36917136, 37000000, 37185609,
    37454350, 37723362, 37992647, 38000000, 38262208, 38532047, 38802167, 39000000,
    39072570, 39343259, 39614237, 39885507, 40000000, 40157070, 40428929, 40701088,
    40973548, 41000000, 41246313, 41519385, 41792767, 42000000, 42066462, 42340472,
    42614801, 42889450, 43000000, 43164424, 43439724, 43715354, 43991317, 44000000,
    44267614, 44544251, 44821228, 45000000, 45098550, 45376219, 45654238, 45932611,
    46000000, 46211340, 46490429, 46769880, 47000000, 47049697, 47329883, 47610440,
    47891373, 48000000, 48172685, 48454378, 48736457, 49000000, 49018923, 49301781,
    49585035, 49868686, 50000000, 50152740, 50437199, 50722066, 51000000, 51007346,
    51293041, 51579156, 51865693, 52000000, 52152657, 52440051, 52727879, 53000000,
    53016145, 53304851, 53594003, 53883603, 54000000, 54173656, 54464165, 54755135,
    55000000, 55046570, 55338472, 55630847, 55923698, 56000000, 56217029, 56510845,
    56805150, 57000000, 57099947, 57395242, 57691038, 57987339, 58000000, 58284151,
    58581477, 58879321, 59000000, 59177689, 59476585, 59776013, 60000000, 60075977,
    60376484, 60677536, 60979140, 61000000, 61281299, 61584019, 61887304, 62000000,
    62191160, 62495590, 62800601, 63000000, 63106198, 63412385, 63719167, 64000000,
    64026551, 64334541, 64643142, 64952360, 65000000, 65262200, 65572668, 65883769,
    66000000, 66195510, 66507895, 66820930, 67000000, 67134621, 67448975, 67450000,
    67763996, 68000000, 68079692, 68396067, 68713129, 69000000, 69030882, 69349335,
    69668492, 69988360, 70000000, 70308946, 70630256, 70952297, 71000000, 71275076,
    71598599, 71922873, 72000000, 72247905, 72573702, 72900272, 73000000, 73227620,
    73555756, 73884685, 74000000, 74214415, 74544955, 74876311, 75000000, 75208491,
    75541503, 75875354, 76000000, 76210054, 76545610, 76882029, 77000000, 77219321,
    77557494, 77896556, 78000000, 78236516, 78577383, 78919165, 79000000, 79261872,
    79605512, 79950094, 80000000, 80295629, 80642125, 80989591, 81000000, 81338039,
    81687477, 82000000, 82037915, 82389363, 82741832, 83000000, 83095332, 83449873,
    83805467, 84000000, 84162123, 84519854, 84878669, 85000000, 85238580, 85599599,
    85961736, 86000000, 86325005, 86689417, 87000000, 87054983, 87421716, 87789630,
    88000000, 88158735, 88529045, 88900573, 89000000, 89273332, 89647336, 90000000,
    90022599, 90399133, 90776953, 91000000, 91156074, 91536509, 91918274, 92000000,
    92301383, 92685851, 93000000, 93071695, 93458929, 93847570, 94000000, 94237633,
    94629136, 95000000, 95022094, 95416525, 95812447, 96000000, 96209875, 96608830,
    97000000, 97009328, 97411388, 97815029, 98000000, 98220270, 98627130, 99000000,
    99035629, 99445788, 99857627, 100000000, 100271167, 100686428, 101000000, 101103433,
    101522203, 101942762, 102000000, 102365131, 102789335, 103000000, 103215396, 103643339,
    104000000, 104073189, 104504970, 104938708, 105000000, 105374430, 105812162, 106000000,
    106251930, 106693763, 107000000, 107137689, 107583736, 108000000, 108031934, 108482313,
    108934903, 109000000, 109389735, 109846842, 110000000, 110306256, 110768009, 111000000,
    111232137, 111698673, 112000000, 112167653, 112639113, 113000000, 113113090, 113589622,
    114000000, 114068748, 114550506, 115000000, 115034938, 115522085, 116000000, 116011988,
    116504692, 117000000, 117000241, 117498679, 118000000, 118000054, 118504413, 119000000,
    119011804, 119522278, 120000000, 120035886, 120552680, 121000000, 121072713, 121596042,
    122000000, 122122722, 122652812, 123000000, 123186371, 123723460, 124000000, 124264142,
    124808481, 125000000, 125356544, 125908398, 126000000, 126464114, 127000000, 127023762,
    127587418, 128000000, 128155157, 128727056, 129000000, 129303198, 129883663, 130000000,
    130468539, 131000000, 131057911, 131651872, 132000000, 132250514, 132853933, 133000000,
    133462229, 134000000, 134075503, 134693863, 135000000, 135317415, 135946275, 136000000,
    136580556, 137000000, 137220381, 137865873, 138000000, 138517161, 139000000, 139174378,
    139837662, 140000000, 140507156, 141000000, 141183008, 141865371, 142000000, 142554404,
    143000000, 143250272, 143953147, 144000000, 144663207, 145000000, 145380636, 146000000,
    146105627, 146838380, 147000000, 147579103, 148000000, 148328013, 149000000, 149085336,
    149851307, 150000000, 150626172, 151000000, 151410189, 152000000, 152203624, 153000000,
    153006759, 153819886, 154000000, 154643312, 155000000, 155477359, 156000000, 156322365,
    157000000, 157178682, 158000000, 158046682, 158926756, 159000000, 159819314, 160000000,
    160724789, 161000000, 161643637, 162000000, 162576339, 163000000, 163523402, 164000000,
    164485363, 165000000, 165462790, 166000000, 166456286, 167000000, 167466489, 168000000,
    168494077, 169000000, 169539771, 170000000, 170604340, 171000000, 171688602, 172000000,
    172793432, 173000000, 173919767, 174000000, 175000000, 175068607, 176000000, 176241030,
    177000000, 177438191, 178000000, 178661337, 179000000, 179911811, 180000000, 181000000,
    181191067, 182000000, 182500682, 183000000, 183842367, 184000000, 185000000, 185217986,
    186000000, 186629574, 187000000, 188000000, 188079361, 189000000, 189569792, 190000000,
    191000000, 191103565, 192000000, 192683657, 193000000, 194000000, 194313375, 195000000,
    195996398, 196000000, 197000000, 197736843, 198000000, 199000000, 199539331, 200000000,
    201000000, 201409081, 202000000, 203000000, 203352015, 204000000, 205000000, 205374891,
    206000000, 207000000, 207485473, 208000000, 209000000, 209692743, 210000000, 211000000,
    212000000, 212007169, 213000000, 214000000, 214441062, 215000000, 216000000, 217000000,
    217009038, 218000000, 219000000, 219728638, 220000000, 221000000, 222000000, 222621177,
    223000000, 224000000, 225000000, 225712924, 226000000, 227000000, 228000000, 229000000,
    229036788, 230000000, 231000000, 232000000, 232634787, 233000000, 234000000, 235000000,
    236000000, 236561813, 237000000, 238000000, 239000000, 240000000, 240891555, 241000000,
    242000000, 243000000, 244000000, 245000000, 245726339, 246000000, 247000000, 248000000,
    249000000, 250000000, 251000000, 251214433, 252000000, 253000000, 254000000, 255000000,
    256000000, 257000000, 257582930, 258000000, 259000000, 260000000, 261000000, 262000000,
    263000000, 264000000, 265000000, 265206981, 266000000, 267000000, 268000000, 269000000,
    270000000, 271000000, 272000000, 273000000, 274000000, 274778139, 275000000, 276000000,
    277000000, 278000000, 279000000, 280000000, 281000000, 282000000, 283000000, 284000000,
    285000000, 286000000, 287000000, 287816174, 288000000, 289000000, 290000000, 291000000,
    292000000, 293000000, 294000000, 295000000, 296000000, 297000000, 298000000, 299000000,
    300000000, 301000000, 302000000, 303000000, 304000000, 305000000, 306000000, 307000000,
    308000000, 309000000, 309023231, 310000000, 311000000, 312000000, 313000000, 314000000,
    315000000, 316000000, 317000000, 318000000, 319000000, 320000000, 321000000, 322000000,
    323000000, 324000000, 325000000, 326000000, 327000000, 328000000, 329000000, 330000000,
    331000000, 332000000, 333000000, 334000000, 335000000, 336000000, 337000000, 338000000,
    339000000, 340000000, 341000000, 342000000, 343000000, 344000000, 345000000, 346000000,
    347000000, 348000000, 349000000, 350000000, 351000000, 352000000, 353000000, 354000000,
    355000000, 356000000, 357000000, 358000000, 359000000, 360000000, 361000000, 362000000,
    363000000, 364000000, 365000000, 366000000, 367000000, 368000000, 369000000, 370000000,
    371000000, 372000000, 373000000, 374000000, 375000000, 376000000, 377000000, 378000000,
    379000000, 380000000, 381000000, 382000000, 383000000, 384000000, 385000000, 386000000,
    387000000, 388000000, 389000000, 390000000, 391000000, 392000000, 393000000, 394000000,
    395000000, 396000000, 397000000, 398000000, 399000000, 399190000, 399200000, 399990000,
    400000000
  >>

\* CdfVals[i] is norm.cdf(CdfKeys[i])
CdfVals ==
  <<
    3167, 3168, 3276, 3277, 3304, 3446, 3594, 3747,
    3908, 4074, 4247, 4427, 4615, 4810, 5012, 5223,
    5442, 5669, 5906, 6152, 6407, 6673, 6948, 7235,
    7532, 7841, 8162, 8496, 8842, 9201, 9574, 9961,
    10363, 10780, 11213, 11662, 12128, 12611, 13112, 13632,
    14171, 14730, 15310, 15911, 16534, 17180, 17849, 18543,
    19262, 20006, 20778, 21577, 22405, 23263, 24151, 25071,
    26023, 27009, 28029, 29086, 30179, 31311, 32481, 33693,
    34946, 36243, 37584, 38971, 40406, 41889, 43423, 45009,
    46648, 48342, 50094, 51904, 53774, 55706, 57703, 59765,
    61895, 64095, 66367, 68714, 71136, 73638, 76219, 78885,
    81635, 84474, 87403, 90426, 93544, 96760, 100000, 100078,
    103500, 107029, 110668, 114421, 118289, 122277, 126387, 130624,
    134990, 139489, 144124, 148900, 153820, 158887, 164106, 169481,
    175016, 180714, 186581, 192621, 198838, 200000, 205236, 211821,
    218596, 225568, 232740, 240118, 247707, 255513, 263540, 271794,
    280281, 289007, 297976, 300000, 307196, 316672, 326410, 336416,
    346697, 357260, 368111, 379256, 390703, 400000, 402459, 414530,
    426924, 439649, 452711, 466119, 479880, 494002, 500000, 508493,
    523361, 538615, 554262, 570313, 586774, 600000, 603656, 620967,
    638715, 656912, 675565, 694685, 700000, 714281, 734363, 754941,
    776025, 797626, 800000, 819754, 842419, 865632, 889404, 900000,
    913747, 938671, 964187, 990308, 1000000, 1017044, 1044408, 1072411,
    1100000, 1101066, 1130384, 1160379, 1191063, 1200000, 1222447, 1254546,
    1287372, 1300000, 1320938, 1355258, 1390345, 1400000, 1426212, 1462873,
    1500000, 1500342, 1538633, 1577761, 1600000, 1617738, 1658581, 1700000,
    1700302, 1742918, 1786442, 1800000, 1830890, 1876277, 1900000, 1922617,
    1969927, 2000000, 2018222, 2067516, 2100000, 2117827, 2169169, 2200000,
    2221559, 2275013, 2300000, 2329547, 2385176, 2400000, 2441919, 2499790,
    2500000, 2558806, 2600000, 2618984, 2680342, 2700000, 2742895, 2800000,
    2806661, 2871656, 2900000, 2937898, 3000000, 3005404, 3074191, 3100000,
    3144276, 3200000, 3215677, 3288412, 3300000, 3362497, 3400000, 3437950,
    3500000, 3514789, 3593032, 3600000, 3672696, 3700000, 3753798, 3800000,
    3836357, 3900000, 3920390, 4000000, 4005916, 4092951, 4100000, 4181514,
    4200000, 4271622, 4300000, 4363294, 4400000, 4456546, 4500000, 4551398,
    4600000, 4647866, 4700000, 4745968, 4800000, 4845723, 4900000, 4947147,
    5000000, 5050258, 5100000, 5155075, 5200000, 5261614, 5300000, 5369893,
    5400000, 5479929, 5500000, 5591740, 5600000, 5700000, 5705343, 5800000,
    5820756, 5900000, 5937994, 6000000, 6057076, 6100000, 6178018, 6200000,
    6300000, 6300836, 6400000, 6425549, 6500000, 6552171, 6600000, 6680720,
    6700000, 6800000, 6811212, 6900000, 6943662, 7000000, 7078088, 7100000,
    7200000, 7214504, 7300000, 7352926, 7400000, 7493370, 7500000, 7600000,
    7635851, 7700000, 7780384, 7800000, 7900000, 7926984, 8000000, 8075666,
    8100000, 8200000, 8226444, 8300000, 8379332, 8400000, 8500000, 8534345,
    8600000, 8691496, 8700000, 8800000, 8850799, 8900000, 9000000, 9012267,
    9100000, 9175914, 9200000, 9300000, 9341751, 9400000, 9500000, 9509792,
    9600000, 9680048, 9700000, 9800000, 9852533, 9900000, 10000000, 10027257,
    10100000, 10200000, 10204232, 10300000, 10383468, 10400000, 10500000, 10564977,
    10600000, 10700000, 10748770, 10800000, 10900000, 10934855, 11000000, 11100000,
    11123244, 11200000, 11300000, 11313945, 11400000, 11500000, 11506967, 11600000,
    11700000, 11702320, 11800000, 11900000, 11900011, 12000000, 12100000, 12100048,
    12200000, 12300000, 12302440, 12400000, 12500000, 12507194, 12600000, 12700000,
    12714315, 12800000, 12900000, 12923811, 13000000, 13100000, 13135688, 13200000,
    13300000, 13349951, 13400000, 13500000, 13566606, 13600000, 13700000, 13785657,
    13800000, 13900000, 14000000, 14007109, 14100000, 14200000, 14230965, 14300000,
    14400000, 14457230, 14500000, 14600000, 14685906, 14700000, 14800000, 14900000,
    14916995, 15000000, 15100000, 15150500, 15200000, 15300000, 15386423, 15400000,
    15500000, 15600000, 15624765, 15700000, 15800000, 15865525, 15900000, 16000000,
    16100000, 16108706, 16200000, 16300000, 16354306, 16400000, 16500000, 16600000,
    16602325, 16700000, 16800000, 16852761, 16900000, 17000000, 17100000, 17105613,
    17200000, 17300000, 17360878, 17400000, 17500000, 17600000, 17618554, 17700000,
    17800000, 17878638, 17900000, 18000000, 18100000, 18141125, 18200000, 18300000,
    18400000, 18406013, 18500000, 18600000, 18673294, 18700000, 18800000, 18900000,
    18942965, 19000000, 19100000, 19200000, 19215020, 19300000, 19400000, 19489452,
    19500000, 19600000, 19700000, 19766254, 19800000, 19900000, 20000000, 20045419,
    20100000, 20200000, 20300000, 20326939, 20400000, 20500000, 20600000, 20610805,
    20700000, 20800000, 20897009, 20900000, 21000000, 21100000, 21185540, 21200000,
    21300000, 21400000, 21476388, 21500000, 21600000, 21700000, 21769544, 21800000,
    21900000, 22000000, 22064995, 22100000, 22200000, 22300000, 22362729, 22400000,
    22500000, 22600000, 22662735, 22700000, 22800000, 22900000, 22965000, 23000000,
    23100000, 23200000, 23269509, 23300000, 23400000, 23500000, 23576250, 23600000,
    23700000, 23800000, 23885207, 23900000, 24000000, 24100000, 24196365, 24200000,
    24300000, 24400000, 24500000, 24509709, 24600000, 24700000, 24800000, 24825223,
    24900000, 24999674, 25000000, 25100000, 25142890, 25200000, 25300000, 25400000,
    25462691, 25500000, 25600000, 25700000, 25784611, 25800000, 25900000, 26000000,
    26100000, 26108630, 26200000, 26300000, 26400000, 26434729, 26500000, 26600000,
    26700000, 26762889, 26800000, 26900000, 27000000, 27093090, 27100000, 27200000,
    27300000, 27400000, 27425312, 27500000, 27600000, 27700000, 27759532, 27800000,
    27900000, 28000000, 28095731, 28100000, 28200000, 28300000, 28400000, 28433885,
    28500000, 28600000, 28700000, 28773972, 28800000, 28900000, 29000000, 29100000,
    29115969, 29200000, 29300000, 29400000, 29459852, 29500000, 29600000, 29700000,
    29800000, 29805597, 29900000, 30000000, 30100000, 30153179, 30200000, 30300000,
    30400000, 30500000, 30502573, 30600000, 30700000, 30800000, 30853754, 30900000,
    31000000, 31100000, 31200000, 31206695, 31300000, 31400000, 31500000, 31561370,
    31600000, 31700000, 31800000, 31900000, 31917751, 32000000, 32100000, 32200000,
    32275811, 32300000, 32400000, 32500000, 32600000, 32635522, 32700000, 32800000,
    32900000, 32996855, 33000000, 33100000, 33200000, 33300000, 33359782, 33400000,
    33500000, 33600000, 33700000, 33724273, 33800000, 33900000, 34000000, 34090297,
    34100000, 34200000, 34300000, 34400000, 34457826, 34500000, 34600000, 34700000,
    34800000, 34826827, 34900000, 35000000, 35100000, 35197271, 35200000, 35300000,
    35400000, 35500000, 35569125, 35600000, 35700000, 35800000, 35900000, 35942357,
    36000000, 36100000, 36200000, 36300000, 36316935, 36400000, 36500000, 36600000,
    36692826, 36700000, 36800000, 36900000, 37000000, 37069998, 37100000, 37200000,
    37300000, 37400000, 37448417, 37500000, 37600000, 37700000, 37800000, 37828048,
    37900000, 38000000, 38100000, 38200000, 38208858, 38300000, 38400000, 38500000,
    38590812, 38600000, 38700000, 38800000, 38900000, 38973875, 39000000, 39100000,
    39200000, 39300000, 39358013, 39400000, 39500000, 39600000, 39700000, 39743189,
    39800000, 39900000, 40000000, 40100000, 40129367, 40200000, 40300000, 40400000,
    40500000, 40516513, 40600000, 40700000, 40800000, 40900000, 40904588, 41000000,
    41100000, 41200000, 41293558, 41300000, 41400000, 41500000, 41600000, 41683384,
    41700000, 41800000, 41900000, 42000000, 42074029, 42100000, 42200000, 42300000,
    42400000, 42465457, 42500000, 42600000, 42700000, 42800000, 42857628, 42900000,
    43000000, 43100000, 43200000, 43250507, 43300000, 43400000, 43500000, 43600000,
    43644054, 43700000, 43800000, 43900000, 44000000, 44038231, 44100000, 44200000,
    44300000, 44400000, 44433000, 44500000, 44600000, 44700000, 44800000, 44828321,
    44900000, 45000000, 45100000, 45200000, 45224157, 45300000, 45400000, 45500000,
    45600000, 45620469, 45700000, 45800000, 45900000, 46000000, 46017216, 46100000,
    46200000, 46300000, 46400000, 46414361, 46500000, 46600000, 46700000, 46800000,
    46811863, 46900000, 47000000, 47100000, 47200000, 47209683, 47300000, 47400000,
    47500000, 47600000, 47607782, 47700000, 47800000, 47900000, 48000000, 48006119,
    48100000, 48200000, 48300000, 48400000, 48404656, 48500000, 48600000, 48700000,
    48800000, 48803353, 48900000, 49000000, 49100000, 49200000, 49202169, 49300000,
    49400000, 49500000, 49600000, 49601064, 49700000, 49800000, 49900000, 49996011,
    50000000, 50003989, 50100000, 50200000, 50300000, 50398936, 50400000, 50500000,
    50600000, 50700000, 50797831, 50800000, 50900000, 51000000, 51100000, 51196647,
    51200000, 51300000, 51400000, 51500000, 51595344, 51600000, 51700000, 51800000,
    51900000, 51993881, 52000000, 52100000, 52200000, 52300000, 52392218, 52400000,
    52500000, 52600000, 52700000, 52790317, 52800000, 52900000, 53000000, 53100000,
    53188137, 53200000, 53300000, 53400000, 53500000, 53585639, 53600000, 53700000,
    53800000, 53900000, 53982784, 54000000, 54100000, 54200000, 54300000, 54379531,
    54400000, 54500000, 54600000, 54700000, 54775843, 54800000, 54900000, 55000000,
    55100000, 55171679, 55200000, 55300000, 55400000, 55500000, 55567000, 55600000,
    55700000, 55800000, 55900000, 55961769, 56000000, 56100000, 56200000, 56300000,
    56355946, 56400000, 56500000, 56600000, 56700000, 56749493, 56800000, 56900000,
    57000000, 57100000, 57142372, 57200000, 57300000, 57400000, 57500000, 57534543,
    57600000, 57700000, 57800000, 57900000, 57925971, 58000000, 58100000, 58200000,
    58300000, 58316616, 58400000, 58500000, 58600000, 58700000, 58706442, 58800000,
    58900000, 59000000, 59095412, 59100000, 59200000, 59300000, 59400000, 59483487,
    59500000, 59600000, 59700000, 59800000, 59870633, 59900000, 60000000, 60100000,
    60200000, 60256811, 60300000, 60400000, 60500000, 60600000, 60641987, 60700000,
    60800000, 60900000, 61000000, 61026125, 61100000, 61200000, 61300000, 61400000,
    61409188, 61500000, 61600000, 61700000, 61791142, 61800000, 61900000, 62000000,
    62100000, 62171952, 62200000, 62300000, 62400000, 62500000, 62551583, 62600000,
    62700000, 62800000, 62900000, 62930002, 63000000, 63100000, 63200000, 63300000,
    63307174, 63400000, 63500000, 63600000, 63683065, 63700000, 63800000, 63900000,
    64000000, 64057643, 64100000, 64200000, 64300000, 64400000, 64430875, 64500000,
    64600000, 64700000, 64800000, 64802729, 64900000, 65000000, 65100000, 65173173,
    65200000, 65300000, 65400000, 65500000, 65542174, 65600000, 65700000, 65800000,
    65900000, 65909703, 66000000, 66100000, 66200000, 66275727, 66300000, 66400000,
    66500000, 66600000, 66640218, 66700000, 66800000, 66900000, 67000000, 67003145,
    67100000, 67200000, 67300000, 67364478, 67400000, 67500000, 67600000, 67700000,
    67724189, 67800000, 67900000, 68000000, 68082249, 68100000, 68200000, 68300000,
    68400000, 68438630, 68500000, 68600000, 68700000, 68793305, 68800000, 68900000,
    69000000, 69100000, 69146246, 69200000, 69300000, 69400000, 69497427, 69500000,
    69600000, 69700000, 69800000, 69846821, 69900000, 70000000, 70100000, 70194403,
    70200000, 70300000, 70400000, 70500000, 70540148, 70600000, 70700000, 70800000,
    70884031, 70900000, 71000000, 71100000, 71200000, 71226028, 71300000, 71400000,
    71500000, 71566115, 71600000, 71700000, 71800000, 71900000, 71904269, 72000000,
    72100000, 72200000, 72240468, 72300000, 72400000, 72500000, 72574688, 72600000,
    72700000, 72800000, 72900000, 72906910, 73000000, 73100000, 73200000, 73237111,
    73300000, 73400000, 73500000, 73565271, 73600000, 73700000, 73800000, 73891370,
    73900000, 74000000, 74100000, 74200000, 74215389, 74300000, 74400000, 74500000,
    74537309, 74600000, 74700000, 74800000, 74857110, 74900000, 75000000, 75000326,
    75100000, 75174777, 75200000, 75300000, 75400000, 75490291, 75500000, 75600000,
    75700000, 75800000, 75803635, 75900000, 76000000, 76100000, 76114793, 76200000,
    76300000, 76400000, 76423750, 76500000, 76600000, 76700000, 76730491, 76800000,
    76900000, 77000000, 77035000, 77100000, 77200000, 77300000, 77337265, 77400000,
    77500000, 77600000, 77637271, 77700000, 77800000, 77900000, 77935005, 78000000,
    78100000, 78200000, 78230456, 78300000, 78400000, 78500000, 78523612, 78600000,
    78700000, 78800000, 78814460, 78900000, 79000000, 79100000, 79102991, 79200000,
    79300000, 79389195, 79400000, 79500000, 79600000, 79673061, 79700000, 79800000,
    79900000, 79954581, 80000000, 80100000, 80200000, 80233746, 80300000, 80400000,
    80500000, 80510548, 80600000, 80700000, 80784980, 80800000, 80900000, 81000000,
    81057035, 81100000, 81200000, 81300000, 81326706, 81400000, 81500000, 81593987,
    81600000, 81700000, 81800000, 81858875, 81900000, 82000000, 82100000, 82121362,
    82200000, 82300000, 82381446, 82400000, 82500000, 82600000, 82639122, 82700000,
    82800000, 82894387, 82900000, 83000000, 83100000, 83147239, 83200000, 83300000,
    83397675, 83400000, 83500000, 83600000, 83645694, 83700000, 83800000, 83891294,
    83900000, 84000000, 84100000, 84134475, 84200000, 84300000, 84375235, 84400000,
    84500000, 84600000, 84613577, 84700000, 84800000, 84849500, 84900000, 85000000,
    85083005, 85100000, 85200000, 85300000, 85314094, 85400000, 85500000, 85542770,
    85600000, 85700000, 85769035, 85800000, 85900000, 85992891, 86000000, 86100000,
    86200000, 86214343, 86300000, 86400000, 86433394, 86500000, 86600000, 86650049,
    86700000, 86800000, 86864312, 86900000, 87000000, 87076189, 87100000, 87200000,
    87285685, 87300000, 87400000, 87492806, 87500000, 87600000, 87697560, 87700000,
    87800000, 87899952, 87900000, 88000000, 88099989, 88100000, 88200000, 88297680,
    88300000, 88400000, 88493033, 88500000, 88600000, 88686055, 88700000, 88800000,
    88876756, 88900000, 89000000, 89065145, 89100000, 89200000, 89251230, 89300000,
    89400000, 89435023, 89500000, 89600000, 89616532, 89700000, 89795768, 89800000,
    89900000, 89972743, 90000000, 90100000, 90147467, 90200000, 90300000, 90319952,
    90400000, 90490208, 90500000, 90600000, 90658249, 90700000, 90800000, 90824086,
    90900000, 90987733, 91000000, 91100000, 91149201, 91200000, 91300000, 91308504,
    91400000, 91465655, 91500000, 91600000, 91620668, 91700000, 91773556, 91800000,
    91900000, 91924334, 92000000, 92073016, 92100000, 92200000, 92219616, 92300000,
    92364149, 92400000, 92500000, 92506630, 92600000, 92647074, 92700000, 92785496,
    92800000, 92900000, 92921912, 93000000, 93056338, 93100000, 93188788, 93200000,
    93300000, 93319280, 93400000, 93447829, 93500000, 93574451, 93600000, 93699164,
    93700000, 93800000, 93821982, 93900000, 93942924, 94000000, 94062006, 94100000,
    94179244, 94200000, 94294657, 94300000, 94400000, 94408260, 94500000, 94520071,
    94600000, 94630107, 94700000, 94738386, 94800000, 94844925, 94900000, 94949742,
    95000000, 95052853, 95100000, 95154277, 95200000, 95254032, 95300000, 95352134,
    95400000, 95448602, 95500000, 95543454, 95600000, 95636706, 95700000, 95728378,
    95800000, 95818486, 95900000, 95907049, 95994084, 96000000, 96079610, 96100000,
    96163643, 96200000, 96246202, 96300000, 96327304, 96400000, 96406968, 96485211,
    96500000, 96562050, 96600000, 96637503, 96700000, 96711588, 96784323, 96800000,
    96855724, 96900000, 96925809, 96994596, 97000000, 97062102, 97100000, 97128344,
    97193339, 97200000, 97257105, 97300000, 97319658, 97381016, 97400000, 97441194,
    97500000, 97500210, 97558081, 97600000, 97614824, 97670453, 97700000, 97724987,
    97778441, 97800000, 97830831, 97882173, 97900000, 97932484, 97981778, 98000000,
    98030073, 98077383, 98100000, 98123723, 98169110, 98200000, 98213558, 98257082,
    98299698, 98300000, 98341419, 98382262, 98400000, 98422239, 98461367, 98499658,
    98500000, 98537127, 98573788, 98600000, 98609655, 98644742, 98679062, 98700000,
    98712628, 98745454, 98777553, 98800000, 98808937, 98839621, 98869616, 98898934,
    98900000, 98927589, 98955592, 98982956, 99000000, 99009692, 99035813, 99061329,
    99086253, 99100000, 99110596, 99134368, 99157581, 99180246, 99200000, 99202374,
    99223975, 99245059, 99265637, 99285719, 99300000, 99305315, 99324435, 99343088,
    99361285, 99379033, 99396344, 99400000, 99413226, 99429687, 99445738, 99461385,
    99476639, 99491507, 99500000, 99505998, 99520120, 99533881, 99547289, 99560351,
    99573076, 99585470, 99597541, 99600000, 99609297, 99620744, 99631889, 99642740,
    99653303, 99663584, 99673590, 99683328, 99692804, 99700000, 99702024, 99710993,
    99719719, 99728206, 99736460, 99744487, 99752293, 99759882, 99767260, 99774432,
    99781404, 99788179, 99794764, 99800000, 99801162, 99807379, 99813419, 99819286,
    99824984, 99830519, 99835894, 99841113, 99846180, 99851100, 99855876, 99860511,
    99865010, 99869376, 99873613, 99877723, 99881711, 99885579, 99889332, 99892971,
    99896500, 99899922, 99900000, 99903240, 99906456, 99909574, 99912597, 99915526,
    99918365, 99921115, 99923781, 99926362, 99928864, 99931286, 99933633, 99935905,
    99938105, 99940235, 99942297, 99944294, 99946226, 99948096, 99949906, 99951658,
    99953352, 99954991, 99956577, 99958111, 99959594, 99961029, 99962416, 99963757,
    99965054, 99966307, 99967519, 99968689, 99969821, 99970914, 99971971, 99972991,
    99973977, 99974929, 99975849, 99976737, 99977595, 99978423, 99979222, 99979994,
    99980738, 99981457, 99982151, 99982820, 99983466, 99984089, 99984690, 99985270,
    99985829, 99986368, 99986888, 99987389, 99987872, 99988338, 99988787, 99989220,
    99989637, 99990039, 99990426, 99990799, 99991158, 99991504, 99991838, 99992159,
    99992468, 99992765, 99993052, 99993327, 99993593, 99993848, 99994094, 99994331,
    99994558, 99994777, 99994988, 99995190, 99995385, 99995573, 99995753, 99995926,
    99996092, 99996253, 99996406, 99996554, 99996696, 99996723, 99996724, 99996832,
    99996833
  >>

\* XGrid: the number-input values the model enters, all on the 0.0001 grid
\* of the widget's format: every multiple of 0.01 in [-4, 4] and a few others
XGrid ==
  <<
    -400000000, -399990000, -399200000, -399190000, -399000000, -398000000, -397000000, -396000000,
    -395000000, -394000000, -393000000, -392000000, -391000000, -390000000, -389000000, -388000000,
    -387000000, -386000000, -385000000, -384000000, -383000000, -382000000, -381000000, -380000000,
    -379000000, -378000000, -377000000, -376000000, -375000000, -374000000, -373000000, -372000000,
    -371000000, -370000000, -369000000, -368000000, -367000000, -366000000, -365000000, -364000000,
    -363000000, -362000000, -361000000, -360000000, -359000000, -358000000, -357000000, -356000000,
    -355000000, -354000000, -353000000, -352000000, -351000000, -350000000, -349000000, -348000000,
    -347000000, -346000000, -345000000, -344000000, -343000000, -342000000, -341000000, -340000000,
    -339000000, -338000000, -337000000, -336000000, -335000000, -334000000, -333000000, -332000000,
    -331000000, -330000000, -329000000, -328000000, -327000000, -326000000, -325000000, -324000000,
    -323000000, -322000000, -321000000, -320000000, -319000000, -318000000, -317000000, -316000000,
    -315000000, -314000000, -313000000, -312000000, -311000000, -310000000, -309000000, -308000000,
    -307000000, -306000000, -305000000, -304000000, -303000000, -302000000, -301000000, -300000000,
    -299000000, -298000000, -297000000, -296000000, -295000000, -294000000, -293000000, -292000000,
    -291000000, -290000000, -289000000, -288000000, -287000000, -286000000, -285000000, -284000000,
    -283000000, -282000000, -281000000, -280000000, -279000000, -278000000, -277000000, -276000000,
    -275000000, -274000000, -273000000, -272000000, -271000000, -270000000, -269000000, -268000000,
    -267000000, -266000000, -265000000, -264000000, -263000000, -262000000, -261000000, -260000000,
    -259000000, -258000000, -257000000, -256000000, -255000000, -254000000, -253000000, -252000000,
    -251000000, -250000000, -249000000, -248000000, -247000000, -246000000, -245000000, -244000000,
    -243000000, -242000000, -241000000, -240000000, -239000000, -238000000, -237000000, -236000000,
    -235000000, -234000000, -233000000, -232000000, -231000000, -230000000, -229000000, -228000000,
    -227000000, -226000000, -225000000, -224000000, -223000000, -222000000, -221000000, -220000000,
    -219000000, -218000000, -217000000, -216000000, -215000000, -214000000, -213000000, -212000000,
    -211000000, -210000000, -209000000, -208000000, -207000000, -206000000, -205000000, -204000000,
    -203000000, -202000000, -201000000, -200000000, -199000000, -198000000, -197000000, -196000000,
    -195000000, -194000000, -193000000, -192000000, -191000000, -190000000, -189000000, -188000000,
    -187000000, -186000000, -185000000, -184000000, -183000000, -182000000, -181000000, -180000000,
    -179000000, -178000000, -177000000, -176000000, -175000000, -174000000, -173000000, -172000000,
    -171000000, -170000000, -169000000, -168000000, -167000000, -166000000, -165000000, -164000000,
    -163000000, -162000000, -161000000, -160000000, -159000000, -158000000, -157000000, -156000000,
    -155000000, -154000000, -153000000, -152000000, -151000000, -150000000, -149000000, -148000000,
    -147000000, -146000000, -145000000, -144000000, -143000000, -142000000, -141000000, -140000000,
    -139000000, -138000000, -137000000, -136000000, -135000000, -134000000, -133000000, -132000000,
    -131000000, -130000000, -129000000, -128000000, -127000000, -126000000, -125000000, -124000000,
    -123000000, -122000000, -121000000, -120000000, -119000000, -118000000, -117000000, -116000000,
    -115000000, -114000000, -113000000, -112000000, -111000000, -110000000, -109000000, -108000000,
    -107000000, -106000000, -105000000, -104000000, -103000000, -102000000, -101000000, -100000000,
    -99000000, -98000000, -97000000, -96000000, -95000000, -94000000, -93000000, -92000000,
    -91000000, -90000000, -89000000, -88000000, -87000000, -86000000, -85000000, -84000000,
    -83000000, -82000000, -81000000, -80000000, -79000000, -78000000, -77000000, -76000000,
    -75000000, -74000000, -73000000, -72000000, -71000000, -70000000, -69000000, -68000000,
    -67450000, -67000000, -66000000, -65000000, -64000000, -63000000, -62000000, -61000000,
    -60000000, -59000000, -58000000, -57000000, -56000000, -55000000, -54000000, -53000000,
    -52000000, -51000000, -50000000, -49000000, -48000000, -47000000, -46000000, -45000000,
    -44000000, -43000000, -42000000, -41000000, -40000000, -39000000, -38000000, -37000000,
    -36000000, -35000000, -34000000, -33000000, -32000000, -31000000, -30000000, -29000000,
    -28000000, -27000000, -26000000, -25000000, -24000000, -23000000, -22000000, -21000000,
    -20000000, -19000000, -18000000, -17000000, -16000000, -15000000, -14000000, -13000000,
    -12000000, -11000000, -10000000, -9000000, -8000000, -7000000, -6000000, -5000000,
    -4000000, -3000000, -2000000, -1000000, -10000, 0, 10000, 1000000,
    2000000, 3000000, 4000000, 5000000, 6000000, 7000000, 8000000, 9000000,
    10000000, 11000000, 12000000, 13000000, 14000000, 15000000, 16000000, 17000000,
    18000000, 19000000, 20000000, 21000000, 22000000, 23000000, 24000000, 25000000,
    26000000, 27000000, 28000000, 29000000, 30000000, 31000000, 32000000, 33000000,
    34000000, 35000000, 36000000, 37000000, 38000000, 39000000, 40000000, 41000000,
    42000000, 43000000, 44000000, 45000000, 46000000, 47000000, 48000000, 49000000,
    50000000, 51000000, 52000000, 53000000, 54000000, 55000000, 56000000, 57000000,
    58000000, 59000000, 60000000, 61000000, 62000000, 63000000, 64000000, 65000000,
    66000000, 67000000, 67450000, 68000000, 69000000, 70000000, 71000000, 72000000,
    73000000, 74000000, 75000000, 76000000, 77000000, 78000000, 79000000, 80000000,
    81000000, 82000000, 83000000, 84000000, 85000000, 86000000, 87000000, 88000000,
    89000000, 90000000, 91000000, 92000000, 93000000, 94000000, 95000000, 96000000,
    97000000, 98000000, 99000000, 100000000, 101000000, 102000000, 103000000, 104000000,
    105000000, 106000000, 107000000, 108000000, 109000000, 110000000, 111000000, 112000000,
    113000000, 114000000, 115000000, 116000000, 117000000, 118000000, 119000000, 120000000,
    121000000, 122000000, 123000000, 124000000, 125000000, 126000000, 127000000, 128000000,
    129000000, 130000000, 131000000, 132000000, 133000000, 134000000, 135000000, 136000000,
    137000000, 138000000, 139000000, 140000000, 141000000, 142000000, 143000000, 144000000,
    145000000, 146000000, 147000000, 148000000, 149000000, 150000000, 151000000, 152000000,
    153000000, 154000000, 155000000, 156000000, 157000000, 158000000, 159000000, 160000000,
    161000000, 162000000, 163000000, 164000000, 165000000, 166000000, 167000000, 168000000,
    169000000, 170000000, 171000000, 172000000, 173000000, 174000000, 175000000, 176000000,
    177000000, 178000000, 179000000, 180000000, 181000000, 182000000, 183000000, 184000000,
    185000000, 186000000, 187000000, 188000000, 189000000, 190000000, 191000000, 192000000,
    193000000, 194000000, 195000000, 196000000, 197000000, 198000000, 199000000, 200000000,
    201000000, 202000000, 203000000, 204000000, 205000000, 206000000, 207000000, 208000000,
    209000000, 210000000, 211000000, 212000000, 213000000, 214000000, 215000000, 216000000,
    217000000, 218000000, 219000000, 220000000, 221000000, 222000000, 223000000, 224000000,
    225000000, 226000000, 227000000, 228000000, 229000000, 230000000, 231000000, 232000000,
    233000000, 234000000, 235000000, 236000000, 237000000, 238000000, 239000000, 240000000,
    241000000, 242000000, 243000000, 244000000, 245000000, 246000000, 247000000, 248000000,
    249000000, 250000000, 251000000, 252000000, 253000000, 254000000, 255000000, 256000000,
    257000000, 258000000, 259000000, 260000000, 261000000, 262000000, 263000000, 264000000,
    265000000, 266000000, 267000000, 268000000, 269000000, 270000000, 271000000, 272000000,
    273000000, 274000000, 275000000, 276000000, 277000000, 278000000, 279000000, 280000000,
    281000000, 282000000, 283000000, 284000000, 285000000, 286000000, 287000000, 288000000,
    289000000, 290000000, 291000000, 292000000, 293000000, 294000000, 295000000, 296000000,
    297000000, 298000000, 299000000, 300000000, 301000000, 302000000, 303000000, 304000000,
    305000000, 306000000, 307000000, 308000000, 309000000, 310000000, 311000000, 312000000,
    313000000, 314000000, 315000000, 316000000, 317000000, 318000000, 319000000, 320000000,
    321000000, 322000000, 323000000, 324000000, 325000000, 326000000, 327000000, 328000000,
    329000000, 330000000, 331000000, 332000000, 333000000, 334000000, 335000000, 336000000,
    337000000, 338000000, 339000000, 340000000, 341000000, 342000000, 343000000, 344000000,
    345000000, 346000000, 347000000, 348000000, 349000000, 350000000, 351000000, 352000000,
    353000000, 354000000, 355000000, 356000000, 357000000, 358000000, 359000000, 360000000,
    361000000, 362000000, 363000000, 364000000, 365000000, 366000000, 367000000, 368000000,
    369000000, 370000000, 371000000, 372000000, 373000000, 374000000, 375000000, 376000000,
    377000000, 378000000, 379000000, 380000000, 381000000, 382000000, 383000000, 384000000,
    385000000, 386000000, 387000000, 388000000, 389000000, 390000000, 391000000, 392000000,
    393000000, 394000000, 395000000, 396000000, 397000000, 398000000, 399000000, 399190000,
    399200000, 399990000, 400000000
  >>

\* ---------------------------------------------------- library functions
CdfTable ==
  [x \in {CdfKeys[i] : i \in DOMAIN CdfKeys} |->
     CdfVals[CHOOSE i \in DOMAIN CdfKeys : CdfKeys[i] = x]]

PdfFn ==
  [x \in {PdfKeys[i] : i \in DOMAIN PdfKeys} |->
     PdfTable[CHOOSE i \in DOMAIN PdfKeys : PdfKeys[i] = x]]

\* np.linspace(start, stop, num): start + i * step with step =
\* (stop - start) / (num - 1), the last element set to stop; each element
\* rounded to 8 decimals
np_linspace(start, stop, num) ==
  LET delta == stop - start
      div == num - 1
  IN [i \in 1..num |->
        IF i = num THEN stop
        ELSE start + (delta \div div) * (i - 1)
                   + RoundDiv((delta % div) * (i - 1), div)]

\* norm.logpdf, -x^2/2 - log(sqrt(2 pi)): what norm.pdf is not
norm_logpdf(x) ==
  [i \in DOMAIN x |-> -(((x[i] \div 10000) * (x[i] \div 10000)) \div 2) - 91893853]

\* scipy.stats.norm.pdf on an array
norm_pdf(x) == [i \in DOMAIN x |-> PdfFn[x[i]]]

\* an inverse CDF that rejects p <= 0 and p >= 1 instead of returning a limit
norm_ppf_raising(p) ==
  IF p.kind # "fin" \/ p.val <= 0 \/ p.val >= One
  THEN [kind |-> "DomainError", val |-> 0]
  ELSE Fin(PpfTable[p.val \div 100000])

\* norm.isf, the inverse of the upper tail
norm_isf(p) ==
  CASE p.kind # "fin" -> NaN
    [] p.val < 0 \/ p.val > One -> NaN
    [] p.val = 0 -> PosInf
    [] p.val = One -> NegInf
    [] OTHER -> Fin(-PpfTable[p.val \div 100000])

\* scipy.stats.norm.ppf: -inf at 0, +inf at 1, nan outside [0, 1]; it
\* raises nothing
norm_ppf(p) ==
  CASE p.kind # "fin" -> NaN
    [] p.val < 0 \/ p.val > One -> NaN
    [] p.val = 0 -> NegInf
    [] p.val = One -> PosInf
    [] OTHER -> Fin(PpfTable[p.val \div 100000])

\* norm.sf, the upper tail 1 - cdf
norm_sf(x) ==
  CASE x.kind = "fin" -> Fin(One - CdfTable[x.val])
    [] x.kind = "neg_inf" -> Fin(One)
    [] x.kind = "pos_inf" -> Fin(0)
    [] OTHER -> NaN

\* scipy.stats.norm.cdf
norm_cdf(x) ==
  CASE x.kind = "fin" -> Fin(CdfTable[x.val])
    [] x.kind = "neg_inf" -> Fin(0)
    [] x.kind = "pos_inf" -> Fin(One)
    [] OTHER -> NaN

\* arr[mask]: numpy boolean indexing, the elements whose mask is True, in order
BoolIndex(arr, mask) ==
  LET idx == SelectSeq([i \in DOMAIN arr |-> i], LAMBDA i : mask[i])
  IN [j \in 1..Len(idx) |-> arr[idx[j]]]

\* ------------------------------------------------- plot_shaded_normal
linspace_start == -400000000

linspace_stop == 400000000

linspace_num == 1000

\* the same function with x < x_q as the mask
plot_shaded_normal_strict(x_q, color, area_label, title) ==
  LET x == np_linspace(linspace_start, linspace_stop, linspace_num)
      y == norm_pdf(x)
      mask == [i \in DOMAIN x |-> LessEq(x[i], x_q) /\ ~(x_q.kind = "fin" /\ x[i] = x_q.val)]
  IN [line_x |-> x, line_y |-> y, line_label |-> "Standard normal density",
      fill_x |-> BoolIndex(x, mask), fill_y |-> BoolIndex(y, mask),
      fill_color |-> color, fill_label |-> area_label,
      vline_x |-> x_q, vline_color |-> color,
      xlabel |-> "x", ylabel |-> "f(x)", title |-> title]

\* the same function shading the right tail, x >= x_q
plot_shaded_normal_right_tail(x_q, color, area_label, title) ==
  LET x == np_linspace(linspace_start, linspace_stop, linspace_num)
      y == norm_pdf(x)
      mask == [i \in DOMAIN x |-> x_q.kind = "neg_inf" \/ (x_q.kind = "fin" /\ x[i] >= x_q.val)]
  IN [line_x |-> x, line_y |-> y, line_label |-> "Standard normal density",
      fill_x |-> BoolIndex(x, mask), fill_y |-> BoolIndex(y, mask),
      fill_color |-> color, fill_label |-> area_label,
      vline_x |-> x_q, vline_color |-> color,
      xlabel |-> "x", ylabel |-> "f(x)", title |-> title]

\* The content of the figure plot_shaded_normal returns; its registration
\* by plt.subplots is plt_subplots below.
plot_shaded_normal(x_q, color, area_label, title) ==
  LET x == np_linspace(linspace_start, linspace_stop, linspace_num)
      y == norm_pdf(x)
      mask == [i \in DOMAIN x |-> LessEq(x[i], x_q)]
  IN [line_x |-> x, line_y |-> y, line_label |-> "Standard normal density",
      fill_x |-> BoolIndex(x, mask), fill_y |-> BoolIndex(y, mask),
      fill_color |-> color, fill_label |-> area_label,
      vline_x |-> x_q, vline_color |-> color,
      xlabel |-> "x", ylabel |-> "f(x)", title |-> title]

\* plt.subplots: pyplot gives the new figure the next free number and keeps
\* it in its process-wide registry until plt.close is called on it
plt_subplots(registry) ==
  LET num == IF registry = {} THEN 1
             ELSE 1 + CHOOSE m \in registry : \A n \in registry : n <= m
  IN [num |-> num, registry |-> registry \cup {num}]

\* st.pyplot(fig) sends the figure's image to the page; with a figure given
\* it neither clears nor closes it, so the registry is left as it is
st_pyplot(fig, registry) == registry

\* ------------------------------------------------------------- widgets
\* the slider configured with min_value = 0.0
q_min_value_zero == 0 * 100000

q_min_value == 100000

q_max_value == 99900000

q_value == 25000000

q_step == 100000

x_min_value == -400000000

x_max_value == 400000000

x_value == -67450000

\* st.slider delivers v only within [min_value, max_value] on the step grid
st_slider(v) ==
  /\ q_min_value <= v
  /\ v <= q_max_value
  /\ (v - q_min_value) % q_step = 0

\* st.number_input delivers v only within [min_value, max_value]
st_number_input(v) ==
  /\ x_min_value <= v
  /\ v <= x_max_value

\* the slider positions the model tries: positions of the grid and the two
\* limits 0 and 1 the widget is configured to exclude
SliderTries ==
  {0, 100000, 200000, 1000000, 2500000, 25000000, 25100000, 50000000,
   75000000, 97500000, 99000000, 99800000, 99900000, One}

\* the values the model types into the number input: values of XGrid and
\* values beyond the widget's limits
NumberTries ==
  {-1000000000, -400010000, -400000000, -399990000, -399200000, -196000000,
   -67450000, -10000, 0, 10000, 67450000, 196000000, 399190000, 399200000,
   399990000, 400000000, 400010000, 1000000000}

\* ---------------------------------------------------------- the script
\* the left column: lines 72-98 without the widget and the figure's
\* registration
left_col(qv) ==
  LET x_q == norm_ppf(Fin(qv))
  IN [input |-> qv,
      derived |-> x_q,
      text |-> [q |-> Format4f(Fin(qv)), x |-> Format4f(x_q),
                pct |-> FormatPct1f(Fin(qv))],
      fig |-> plot_shaded_normal(x_q, "tab:blue",
                                 <<"Area for X <= ", Format4f(x_q)>>,
                                 <<"Standard normal density (q = ", Format4f(Fin(qv))>>)]

\* the right column: lines 110-137
right_col(xv) ==
  LET q_from_x == norm_cdf(Fin(xv))
  IN [input |-> xv,
      derived |-> q_from_x,
      text |-> [x |-> Format4f(Fin(xv)), q |-> Format4f(q_from_x),
                pct |-> FormatPct1f(q_from_x)],
      fig |-> plot_shaded_normal(Fin(xv), "green",
                                 <<"Area for X <= ", Format4f(Fin(xv))>>,
                                 <<"Standard normal density (x = ", Format4f(Fin(xv))>>)]

\* the right column drawn with the left column's x_q as its cutoff
Payload_shared_cutoff(qv, xv) ==
  [left |-> left_col(qv),
   right |-> [right_col(xv) EXCEPT
                !.fig = plot_shaded_normal(norm_ppf(Fin(qv)), "green",
                                           <<"Area for X <= ", Format4f(Fin(xv))>>,
                                           <<"Standard normal density (x = ", Format4f(Fin(xv))>>)]]

\* what one run of the script puts on the page for the widget values qv, xv
Payload(qv, xv) == [left |-> left_col(qv), right |-> right_col(xv)]

\* one run of the script: both columns, each figure registered by
\* plt.subplots and shown by st.pyplot
RunScript(qv, xv) ==
  LET l == plt_subplots(figs)
      afterLeft == st_pyplot(l.num, l.registry)
      r == plt_subplots(afterLeft)
      afterRight == st_pyplot(r.num, r.registry)
  IN /\ display' = Payload(qv, xv)
     /\ fig_left' = l.num
     /\ fig_right' = r.num
     /\ figs' = afterRight
     /\ runs' = runs + 1

\* the script runs at most MaxRuns times in a session
MaxRuns == 3

Idle == [op |-> "idle"]

Init ==
  /\ q = q_value
  /\ x_input = x_value
  /\ display = Payload(q_value, x_value)
  /\ fig_left = 1
  /\ fig_right = 2
  /\ figs = {1, 2}
  /\ runs = 1
  /\ call = Idle

\* the slider is moved to v while the script shows a stale page
MoveSlider_cached(v) ==
  /\ runs < MaxRuns
  /\ st_slider(v)
  /\ v # q
  /\ q' = v
  /\ runs' = runs + 1
  /\ UNCHANGED <<x_input, display, fig_left, fig_right, figs, call>>

\* the user moves the slider to v: the widget's value changes and Streamlit
\* re-runs the script from top to bottom
MoveSlider(v) ==
  /\ runs < MaxRuns
  /\ st_slider(v)
  /\ v # q
  /\ q' = v
  /\ RunScript(v, x_input)
  /\ UNCHANGED <<x_input, call>>

\* the user enters v in the number input: Streamlit re-runs the script
EditNumber(v) ==
  /\ runs < MaxRuns
  /\ st_number_input(v)
  /\ v # x_input
  /\ x_input' = v
  /\ RunScript(q, v)
  /\ UNCHANGED <<q, call>>

Next ==
  \/ \E v \in SliderTries : MoveSlider(v)
  \/ \E v \in NumberTries : EditNumber(v)

Spec == Init /\ [][Next]_vars

\* ------------------------------------------- the functions on their own
\* The second specification applies the script's computations to arguments
\* the widgets do not restrict: one call at a time, from the idle state.

\* how far beyond [0, 1] the probabilities tried reach, in steps of 0.001
QMargin == 3

QArgs == {k * q_step : k \in (0 - QMargin)..(1000 + QMargin)}

QGrid == {k * q_step : k \in 1..999}

XArgs == {XGrid[i] : i \in DOMAIN XGrid}

\* cutoffs beyond the plotted domain
FarCutoffs == {-1000000000, 1000000000}

\* order_to_value(p): line 80
Call_order_to_value(p) ==
  /\ call = Idle
  /\ call' = [op |-> "order_to_value", arg |-> p, out |-> norm_ppf(Fin(p))]
  /\ UNCHANGED <<q, x_input, fig_left, fig_right, display, figs, runs>>

\* value_to_order(x): line 119
Call_value_to_order(x) ==
  /\ call = Idle
  /\ call' = [op |-> "value_to_order", arg |-> x, out |-> norm_cdf(Fin(x))]
  /\ UNCHANGED <<q, x_input, fig_left, fig_right, display, figs, runs>>

\* value_to_order(order_to_value(p))
Call_round_trip(p) ==
  /\ call = Idle
  /\ call' = [op |-> "round_trip", arg |-> p, out |-> norm_cdf(norm_ppf(Fin(p)))]
  /\ UNCHANGED <<q, x_input, fig_left, fig_right, display, figs, runs>>

\* plot_shaded_normal with a cutoff and styling of the caller's choice
Call_plot(c, color) ==
  /\ call = Idle
  /\ call' = [op |-> "plot", arg |-> c,
              out |-> plot_shaded_normal(Fin(c), color, <<"Area for X <= ", Format4f(Fin(c))>>,
                                         <<"cutoff ", Format4f(Fin(c))>>)]
  /\ UNCHANGED <<q, x_input, fig_left, fig_right, display, figs, runs>>

\* the left column for a slider position
Call_left_col(p) ==
  /\ call = Idle
  /\ call' = [op |-> "left_col", arg |-> p, out |-> left_col(p)]
  /\ UNCHANGED <<q, x_input, fig_left, fig_right, display, figs, runs>>

\* the right column for a number-input value
Call_right_col(x) ==
  /\ call = Idle
  /\ call' = [op |-> "right_col", arg |-> x, out |-> right_col(x)]
  /\ UNCHANGED <<q, x_input, fig_left, fig_right, display, figs, runs>>

Return ==
  /\ call # Idle
  /\ call' = Idle
  /\ UNCHANGED <<q, x_input, fig_left, fig_right, display, figs, runs>>

NextFn ==
  \/ \E p \in QArgs : Call_order_to_value(p)
  \/ \E x \in XArgs : Call_value_to_order(x)
  \/ \E p \in QGrid : Call_round_trip(p)
  \/ \E c \in XArgs \cup FarCutoffs, color \in {"tab:blue", "green"} : Call_plot(c, color)
  \/ \E p \in QGrid : Call_left_col(p)
  \/ \E x \in XArgs : Call_right_col(x)
  \/ Return

SpecFn == Init /\ [][NextFn]_vars

\* ----------------------------------------------------------- properties
\* the figure a call of the second specification produced
CallFig == IF call.op = "plot" THEN call.out ELSE call.out.fig

\* fig's shaded region is the first Len(fill_x) samples of its curve, each x
\* with the f(x) of the same sample
IsPrefixRegion(fig) ==
  LET n == Len(fig.fill_x)
  IN /\ Len(fig.fill_y) = n
     /\ n <= Len(fig.line_x)
     /\ \A j \in 1..n : fig.fill_x[j] = fig.line_x[j] /\ fig.fill_y[j] = fig.line_y[j]

\* C1 as stated: order_to_value fails with a DomainError for every
\* probability q <= 0 or q >= 1 and returns no value for it.
C1_DomainErrorRaised ==
  (call.op = "order_to_value" /\ (call.arg <= 0 \/ call.arg >= One))
    => call.out.kind = "DomainError"

\* C1 as amended: order_to_value raises no error for any q; it returns
\* -infinity for q = 0, +infinity for q = 1, NaN for q < 0 or q > 1, and a
\* finite value for every q strictly inside (0, 1).
C1_LimitsReturned ==
  call.op = "order_to_value" =>
    /\ call.out.kind # "DomainError"
    /\ call.arg = 0 => call.out = NegInf
    /\ call.arg = One => call.out = PosInf
    /\ (call.arg < 0 \/ call.arg > One) => call.out = NaN
    /\ (0 < call.arg /\ call.arg < One) => call.out.kind = "fin"

C1_Witness ==
  call.op = "order_to_value" /\ call.arg = 0 /\ call.out = NegInf

\* C2: after any sequence of slider moves and number-input edits, the q that
\* reached order_to_value is on the 0.001 grid within [0.001, 0.999], the x
\* that reached value_to_order and the plot is within [-4, 4], and the
\* quantile computed is finite: no out-of-domain q reaches the inverse CDF.
C2_InputsWithinBounds ==
  /\ 100000 <= q /\ q <= 99900000 /\ q % 100000 = 0
  /\ -400000000 <= x_input /\ x_input <= 400000000
  /\ display.left.input = q
  /\ display.right.input = x_input
  /\ display.left.derived.kind = "fin"
  /\ display.left.fig.vline_x.kind = "fin"
  /\ -400000000 < display.left.fig.vline_x.val
  /\ display.left.fig.vline_x.val < 400000000
  /\ display.right.fig.vline_x = Fin(x_input)
  /\ display.right.derived.kind = "fin"

C2_Witness ==
  /\ runs = 3
  /\ q = 100000
  /\ x_input = 400000000
  /\ display.left.input = 100000
  /\ display.right.input = 400000000

\* C3: the shaded region is exactly the samples of the curve with
\* x <= cutoff (inclusive), in the curve's order, each x with its own f(x);
\* a cutoff below the domain gives the empty region, one above it the full
\* curve.
C3_ShadeLeftOf ==
  call.op = "plot" =>
    LET fig == call.out
        n == Len(fig.fill_x)
    IN /\ IsPrefixRegion(fig)
       /\ \A i \in 1..Len(fig.line_x) : (i <= n) <=> (fig.line_x[i] <= call.arg)
       /\ \A j \in 1..n : fig.fill_y[j] = PdfFn[fig.fill_x[j]]
       /\ call.arg = -1000000000 => n = 0
       /\ call.arg = 1000000000 => n = Len(fig.line_x)

C3_Witness ==
  /\ call.op = "plot"
  /\ call.arg = -400000000
  /\ call.out.fill_x = <<-400000000>>
  /\ call.out.fill_y = <<13383>>

\* C4: the curve of every render has exactly 1000 samples, x from -4 to 4,
\* strictly increasing and uniformly spaced (to the last of the 8 decimals),
\* every f(x) >= 0, and is the same curve whatever the cutoff, colour,
\* label and title are.
C4_DensityCurve ==
  call.op \in {"plot", "left_col", "right_col"} =>
    LET x == CallFig.line_x
        y == CallFig.line_y
    IN /\ Len(x) = 1000
       /\ Len(y) = 1000
       /\ x[1] = -400000000
       /\ x[1000] = 400000000
       /\ \A i \in 1..999 : x[i] < x[i + 1]
       /\ \A i \in 1..999 : (x[i + 1] - x[i]) - (x[2] - x[1]) \in {-1, 0, 1}
       /\ \A i \in 1..1000 : y[i] >= 0
       /\ x = display.left.fig.line_x
       /\ y = display.left.fig.line_y

C4_Witness ==
  /\ call.op = "plot"
  /\ call.arg = 1000000000
  /\ call.out.fill_color = "green"
  /\ call.out.line_y[1] = 13383
  /\ display.left.fig.fill_color = "tab:blue"

\* C5: for every q of the slider's grid 0.001 .. 0.999 (which holds 0.001,
\* 0.01, 0.25, 0.5, 0.75, 0.99 and 0.999),
\* value_to_order(order_to_value(q)) is q within 1e-6.
C5_RoundTrip ==
  call.op = "round_trip" =>
    /\ call.out.kind = "fin"
    /\ call.out.val - call.arg <= 100
    /\ call.arg - call.out.val <= 100

C5_Witness ==
  /\ call.op = "round_trip"
  /\ call.arg = 100000
  /\ call.out.kind = "fin"
  /\ call.out.val - 100000 \in -100..100

\* C6: order_to_value is strictly increasing on the slider's grid: every
\* grid q2 above q gives a larger value, and order_to_value(0.5) = 0.
C6_StrictlyIncreasing ==
  (call.op = "order_to_value" /\ call.arg \in QGrid) =>
    /\ call.out.kind = "fin"
    /\ \A p2 \in QGrid :
         call.arg < p2 =>
           /\ norm_ppf(Fin(p2)).kind = "fin"
           /\ call.out.val < norm_ppf(Fin(p2)).val
    /\ call.arg = 50000000 => call.out.val = 0

C6_Witness ==
  call.op = "order_to_value" /\ call.arg = 50000000 /\ call.out = Fin(0)

\* C7: every interaction is exactly one run of the script, and what the run
\* displays is determined by the widget values q and x it ends with, whatever
\* came before.
C7_HistoryIndependent ==
  [][runs' = runs + 1 /\ display' = Payload(q', x_input')]_vars

C7_Witness ==
  /\ runs = 3
  /\ q = q_value
  /\ x_input = x_value
  /\ display = Payload(q_value, x_value)
  /\ figs = 1..6

\* C8 as stated: no figure of an earlier run is still in pyplot's registry;
\* the live figures are at most those of the current run.
C8_FiguresDiscarded == figs \subseteq {fig_left, fig_right}

\* C9: the left panel is determined by q and the right panel by x_input: an
\* interaction that leaves one widget alone leaves that widget's panel alone,
\* and the right panel's cutoff is the entered x.
C9_PanelsIndependent ==
  [][/\ q' = q => display'.left = display.left
     /\ x_input' = x_input => display'.right = display.right
     /\ display'.left = left_col(q')
     /\ display'.right = right_col(x_input')
     /\ display'.right.fig.vline_x = Fin(x_input')
     /\ \A i \in 1..Len(display'.right.fig.line_x) :
          (i <= Len(display'.right.fig.fill_x)) <=> (display'.right.fig.line_x[i] <= x_input')
    ]_vars

C9_Witness ==
  /\ runs = 3
  /\ q = 50000000
  /\ x_input = 196000000
  /\ display.left.fig.vline_x = Fin(0)
  /\ display.right.fig.vline_x = Fin(196000000)

\* C10: the shaded region is a non-empty prefix of the curve: for the left
\* panel with q on the grid 0.001 .. 0.999 the cutoff is strictly inside
\* (-4, 4) and the region is shorter than the curve; for the right panel
\* with x in [-4, 4] the region has one sample at x = -4 and is the full
\* curve exactly at x = 4.
C10_NonEmptyPrefix ==
  /\ call.op = "left_col" =>
       /\ IsPrefixRegion(call.out.fig)
       /\ call.out.derived.kind = "fin"
       /\ -400000000 < call.out.derived.val /\ call.out.derived.val < 400000000
       /\ 1 <= Len(call.out.fig.fill_x)
       /\ Len(call.out.fig.fill_x) < 1000
  /\ call.op = "right_col" =>
       /\ IsPrefixRegion(call.out.fig)
       /\ 1 <= Len(call.out.fig.fill_x)
       /\ call.out.fig.fill_x[1] = -400000000
       /\ call.arg = -400000000 => Len(call.out.fig.fill_x) = 1
       /\ Len(call.out.fig.fill_x) = 1000 <=> call.arg = 400000000

C10_Witness ==
  /\ call.op = "right_col"
  /\ call.arg = -400000000
  /\ Len(call.out.fig.fill_x) = 1
====
